---- MODULE Spec2Model ----
(***************************************************************************)
(* A model of the locker hierarchy: Locker (app/locker.py), the three      *)
(* locker robots (app/smart_locker_robot.py and its two siblings) and      *)
(* LockerRobotManager (app/locker_robot_manager.py).                       *)
(*                                                                         *)
(* Python objects are identified by name.  The mutable state of the        *)
(* program is the fields of the Locker objects; the aggregators only hold  *)
(* lists of children.  A method call is one step: the program is           *)
(* single-threaded and every method runs to completion or raises.  The     *)
(* one exception is the specification of two threads that call             *)
(* Locker.store_bag: there a call is two steps, the capacity test and the  *)
(* mutation.                                                               *)
(***************************************************************************)
EXTENDS Integers, Sequences, FiniteSets, TLC

VARIABLES
    lockers,    \* Locker objects: name -> [capability, available_capability, stored_bags]
    units,      \* aggregator objects: name -> [kind, lockers, robots]
    uuidCount,  \* number of uuid.uuid4() calls made so far
    last,       \* the most recent method call and its outcome
    retrieved,  \* history: the tickets some retrieve_bag call has returned a bag for
    threads     \* the threads inside Locker.store_bag, and how they are scheduled

vars == <<lockers, units, uuidCount, last, retrieved, threads>>

----------------------------------------------------------------------------
(* Bounds *)

\* number of uuid4() calls (successful stores) in one behaviour
MaxTickets == 3

\* the same, for the object graphs that enumerate the capabilities
MaxRobotTickets == 2

\* largest capability of a locker in the enumerated object graphs
MaxCap == 2

\* uuid4() calls in the behaviours of the graphs with a director
MaxDirectorTickets == 2

\* aggregators built in the behaviours that run the constructors
MaxUnits == 2

\* uuid4() calls in the behaviours of the one-slot hierarchies
MaxHierarchyTickets == 3

\* uuid4() calls made on the robot of the Smart robot's three-bag test
MaxSmartTestTickets == 3

\* uuid4() calls made by the threads that store in one locker
MaxRaceTickets == 3

\* managers nested in one another, the outermost included
MaxDepth == 3

\* uuid4() calls in the behaviours of the nested managers
MaxNestedTickets == 2

----------------------------------------------------------------------------
(* Python values *)

Str(v) == [type |-> "str", value |-> v]

\* the value None, passed as a ticket
NoneTicket == [type |-> "NoneType", value |-> -1]

\* the value None, as "no content"
NoneContent == [type |-> "NoneType", value |-> "None"]

\* isinstance(x, str)
isinstance_str(x) == x.type = "str"

\* payloads handed to store_bag: two strings and the integer 123
Contents == {Str("bag 1"), Str("bag 2"), [type |-> "int", value |-> "123"]}

\* a generator that yields one of two strings only
uuid4_TwoValues(n) == Str(1 + (n % 2))

\* str(uuid.uuid4()): the n-th call yields a string no earlier call yielded
uuid4(n) == Str(n)

\* a string that is no uuid: "invalid-ticket"
InvalidTicketString == Str(0)

\* dict operations on stored_bags
EmptyDict == [k \in {} |-> NoneContent]

DictSet(d, k, v) == [x \in (DOMAIN d) \cup {k} |-> IF x = k THEN v ELSE d[x]]

DictDel(d, k) == [x \in (DOMAIN d) \ {k} |-> d[x]]

----------------------------------------------------------------------------
(* Outcome of a method call: the lockers afterwards, the exception raised  *)
(* ("" when the call returned), its message, and the returned value.       *)

Return(lk, v) == [lockers |-> lk, raised |-> "", msg |-> "", ret |-> v]

Raise(lk, exc, m) == [lockers |-> lk, raised |-> exc, msg |-> m, ret |-> NoneContent]

----------------------------------------------------------------------------
(* Locker *)

\* Locker.__init__
Locker(capability) ==
    [capability |-> capability,
     available_capability |-> capability,
     stored_bags |-> EmptyDict]

\* Locker.store_bag without "self.available_capability -= 1"
Locker_store_bag_NoDecrement(l, content, lk, ticket) ==
    IF ~isinstance_str(content)
    THEN Raise(lk, "TypeError", "Bag content must be a string")
    ELSE IF lk[l].available_capability <= 0
    THEN Raise(lk, "ValueError", "Locker is full")
    ELSE Return([lk EXCEPT ![l].stored_bags = DictSet(@, ticket, content)], ticket)

\* Locker.store_bag with the capacity test written "< 0"
Locker_store_bag_OffByOne(l, content, lk, ticket) ==
    IF ~isinstance_str(content)
    THEN Raise(lk, "TypeError", "Bag content must be a string")
    ELSE IF lk[l].available_capability < 0
    THEN Raise(lk, "ValueError", "Locker is full")
    ELSE Return([lk EXCEPT ![l].stored_bags = DictSet(@, ticket, content),
                           ![l].available_capability = @ - 1],
                ticket)

\* Locker.store_bag without "self.stored_bags[ticket] = content"
Locker_store_bag_NoInsert(l, content, lk, ticket) ==
    IF ~isinstance_str(content)
    THEN Raise(lk, "TypeError", "Bag content must be a string")
    ELSE IF lk[l].available_capability <= 0
    THEN Raise(lk, "ValueError", "Locker is full")
    ELSE Return([lk EXCEPT ![l].available_capability = @ - 1], ticket)

\* Locker.store_bag without the isinstance test of lines 39-40
Locker_store_bag_NoTypeCheck(l, content, lk, ticket) ==
    IF lk[l].available_capability <= 0
    THEN Raise(lk, "ValueError", "Locker is full")
    ELSE Return([lk EXCEPT ![l].stored_bags = DictSet(@, ticket, content),
                           ![l].available_capability = @ - 1],
                ticket)

\* Locker.store_bag with "self.stored_bags = {ticket: content}" for line 49
Locker_store_bag_Overwrites(l, content, lk, ticket) ==
    IF ~isinstance_str(content)
    THEN Raise(lk, "TypeError", "Bag content must be a string")
    ELSE IF lk[l].available_capability <= 0
    THEN Raise(lk, "ValueError", "Locker is full")
    ELSE Return([lk EXCEPT ![l].stored_bags = DictSet(EmptyDict, ticket, content),
                           ![l].available_capability = @ - 1],
                ticket)

\* Locker.store_bag; ticket is the value str(uuid.uuid4()) yields at line 46
Locker_store_bag(l, content, lk, ticket) ==
    IF ~isinstance_str(content)
    THEN Raise(lk, "TypeError", "Bag content must be a string")
    ELSE IF lk[l].available_capability <= 0
    THEN Raise(lk, "ValueError", "Locker is full")
    ELSE Return([lk EXCEPT ![l].stored_bags = DictSet(@, ticket, content),
                           ![l].available_capability = @ - 1],
                ticket)

\* the tests of Locker.store_bag with the capacity test of lines 42-43 left out
Locker_store_bag_test_NoFullTest(l, content, lk) ==
    IF ~isinstance_str(content)
    THEN Raise(lk, "TypeError", "Bag content must be a string")
    ELSE Return(lk, NoneContent)

\* Locker.store_bag up to the mutation, lines 39-43: the two tests; the
\* outcome has raised = "" when the call goes on to line 46
Locker_store_bag_test(l, content, lk) ==
    IF ~isinstance_str(content)
    THEN Raise(lk, "TypeError", "Bag content must be a string")
    ELSE IF lk[l].available_capability <= 0
    THEN Raise(lk, "ValueError", "Locker is full")
    ELSE Return(lk, NoneContent)

\* Locker.store_bag from the mutation on, lines 46-54, on the lockers as
\* they are when the thread gets there
Locker_store_bag_mutate(l, content, lk, ticket) ==
    Return([lk EXCEPT ![l].stored_bags = DictSet(@, ticket, content),
                      ![l].available_capability = @ - 1],
           ticket)

\* Locker.retrieve_bag without "del self.stored_bags[ticket]"
Locker_retrieve_bag_NoDelete(l, ticket, lk) ==
    IF ~isinstance_str(ticket) \/ ticket \notin DOMAIN lk[l].stored_bags
    THEN Raise(lk, "ValueError", "Invalid ticket")
    ELSE Return([lk EXCEPT ![l].available_capability = @ + 1],
                lk[l].stored_bags[ticket])

\* Locker.retrieve_bag without "self.available_capability += 1"
Locker_retrieve_bag_NoRestore(l, ticket, lk) ==
    IF ~isinstance_str(ticket) \/ ticket \notin DOMAIN lk[l].stored_bags
    THEN Raise(lk, "ValueError", "Invalid ticket")
    ELSE Return([lk EXCEPT ![l].stored_bags = DictDel(@, ticket)],
                lk[l].stored_bags[ticket])

\* Locker.retrieve_bag with "self.capability += 1" for line 80
Locker_retrieve_bag_GrowsCapability(l, ticket, lk) ==
    IF ~isinstance_str(ticket) \/ ticket \notin DOMAIN lk[l].stored_bags
    THEN Raise(lk, "ValueError", "Invalid ticket")
    ELSE Return([lk EXCEPT ![l].stored_bags = DictDel(@, ticket),
                           ![l].capability = @ + 1],
                lk[l].stored_bags[ticket])

\* Locker.retrieve_bag with line 80 moved before the test of line 70
Locker_retrieve_bag_RestoresFirst(l, ticket, lk) ==
    IF ~isinstance_str(ticket) \/ ticket \notin DOMAIN lk[l].stored_bags
    THEN Raise([lk EXCEPT ![l].available_capability = @ + 1],
               "ValueError", "Invalid ticket")
    ELSE Return([lk EXCEPT ![l].stored_bags = DictDel(@, ticket),
                           ![l].available_capability = @ + 1],
                lk[l].stored_bags[ticket])

\* Locker.retrieve_bag without the test of lines 70-71: the lookup of line
\* 74 raises KeyError for a key the dict does not have
Locker_retrieve_bag_NoTest(l, ticket, lk) ==
    IF ticket \notin DOMAIN lk[l].stored_bags
    THEN Raise(lk, "KeyError", "ticket")
    ELSE Return([lk EXCEPT ![l].stored_bags = DictDel(@, ticket),
                           ![l].available_capability = @ + 1],
                lk[l].stored_bags[ticket])

\* Locker.retrieve_bag
Locker_retrieve_bag(l, ticket, lk) ==
    IF ~isinstance_str(ticket) \/ ticket \notin DOMAIN lk[l].stored_bags
    THEN Raise(lk, "ValueError", "Invalid ticket")
    ELSE Return([lk EXCEPT ![l].stored_bags = DictDel(@, ticket),
                           ![l].available_capability = @ + 1],
                lk[l].stored_bags[ticket])

----------------------------------------------------------------------------
(* Robots.  A robot holds a list of Locker objects (units[r].lockers).     *)

\* the retrieve loop without "except ValueError: continue": only the first
\* locker is asked
SmartLockerRobot_retrieve_loop_NoContinue(ls, i, ticket, lk) ==
    IF i > Len(ls)
    THEN Raise(lk, "ValueError", "Invalid ticket")
    ELSE Locker_retrieve_bag(ls[i], ticket, lk)

\* the retrieve loop of a robot: for locker in self.lockers: try: return
\* locker.retrieve_bag(ticket) / except ValueError: continue; then raise
RECURSIVE SmartLockerRobot_retrieve_loop(_, _, _, _)
SmartLockerRobot_retrieve_loop(ls, i, ticket, lk) ==
    IF i > Len(ls)
    THEN Raise(lk, "ValueError", "Invalid ticket")
    ELSE LET r == Locker_retrieve_bag(ls[i], ticket, lk)
         IN  IF r.raised = "ValueError"
             THEN SmartLockerRobot_retrieve_loop(ls, i + 1, ticket, r.lockers)
             ELSE r

\* SmartLockerRobot.retrieve_bag
SmartLockerRobot_retrieve_bag(r, ticket, lk) ==
    SmartLockerRobot_retrieve_loop(units[r].lockers, 1, ticket, lk)

\* the selection loop with the comparison written ">=": the last maximum wins
RECURSIVE SmartLockerRobot_select_LastMax(_, _, _, _, _)
SmartLockerRobot_select_LastMax(ls, i, lk, max_capability, max_capability_locker) ==
    IF i > Len(ls)
    THEN max_capability_locker
    ELSE IF /\ lk[ls[i]].available_capability > 0
            /\ lk[ls[i]].available_capability >= max_capability
         THEN SmartLockerRobot_select_LastMax(ls, i + 1, lk,
                                              lk[ls[i]].available_capability, ls[i])
         ELSE SmartLockerRobot_select_LastMax(ls, i + 1, lk,
                                              max_capability, max_capability_locker)

\* the selection loop of SmartLockerRobot.store_bag: the running maximum
\* starts at (None, 0) and is replaced only by a strictly greater availability
RECURSIVE SmartLockerRobot_select(_, _, _, _, _)
SmartLockerRobot_select(ls, i, lk, max_capability, max_capability_locker) ==
    IF i > Len(ls)
    THEN max_capability_locker
    ELSE IF /\ lk[ls[i]].available_capability > 0
            /\ lk[ls[i]].available_capability > max_capability
         THEN SmartLockerRobot_select(ls, i + 1, lk,
                                      lk[ls[i]].available_capability, ls[i])
         ELSE SmartLockerRobot_select(ls, i + 1, lk,
                                      max_capability, max_capability_locker)

\* SmartLockerRobot.store_bag with "max_capability = 1" before the loop
SmartLockerRobot_store_bag_MaxStartsAtOne(r, content, lk, ticket) ==
    IF ~isinstance_str(content)
    THEN Raise(lk, "TypeError", "Bag content must be a string")
    ELSE LET max_capability_locker ==
                 SmartLockerRobot_select(units[r].lockers, 1, lk, 1, "None")
         IN  IF max_capability_locker = "None"
             THEN Raise(lk, "ValueError", "All lockers are full")
             ELSE Locker_store_bag(max_capability_locker, content, lk, ticket)

\* SmartLockerRobot.store_bag
SmartLockerRobot_store_bag(r, content, lk, ticket) ==
    IF ~isinstance_str(content)
    THEN Raise(lk, "TypeError", "Bag content must be a string")
    ELSE LET max_capability_locker ==
                 SmartLockerRobot_select(units[r].lockers, 1, lk, 0, "None")
         IN  IF max_capability_locker = "None"
             THEN Raise(lk, "ValueError", "All lockers are full")
             ELSE Locker_store_bag(max_capability_locker, content, lk, ticket)

\* PrimaryLockerRobot: first-fit selection, the first locker in construction
\* order whose available_capability > 0
RECURSIVE PrimaryLockerRobot_select(_, _, _)
PrimaryLockerRobot_select(ls, i, lk) ==
    IF i > Len(ls)
    THEN "None"
    ELSE IF lk[ls[i]].available_capability > 0
         THEN ls[i]
         ELSE PrimaryLockerRobot_select(ls, i + 1, lk)

\* PrimaryLockerRobot.store_bag
PrimaryLockerRobot_store_bag(r, content, lk, ticket) ==
    IF ~isinstance_str(content)
    THEN Raise(lk, "TypeError", "Bag content must be a string")
    ELSE LET locker == PrimaryLockerRobot_select(units[r].lockers, 1, lk)
         IN  IF locker = "None"
             THEN Raise(lk, "ValueError", "All lockers are full")
             ELSE Locker_store_bag(locker, content, lk, ticket)

\* PrimaryLockerRobot.retrieve_bag: linear scan by delegation
RECURSIVE PrimaryLockerRobot_retrieve_loop(_, _, _, _)
PrimaryLockerRobot_retrieve_loop(ls, i, ticket, lk) ==
    IF i > Len(ls)
    THEN Raise(lk, "ValueError", "Invalid ticket")
    ELSE LET r == Locker_retrieve_bag(ls[i], ticket, lk)
         IN  IF r.raised = "ValueError"
             THEN PrimaryLockerRobot_retrieve_loop(ls, i + 1, ticket, r.lockers)
             ELSE r

PrimaryLockerRobot_retrieve_bag(r, ticket, lk) ==
    PrimaryLockerRobot_retrieve_loop(units[r].lockers, 1, ticket, lk)

\* vacancy rates are the fractions available_capability / capability; a / b
\* is greater than c / d (b, d > 0) exactly when a * d > c * b
RateGreater(a, b, c, d) == a * d > c * b

\* SuperLockerRobot: selection by vacancy rate against a running maximum
\* (max_num / max_den) that is replaced only by a strictly greater rate
RECURSIVE SuperLockerRobot_select(_, _, _, _, _, _)
SuperLockerRobot_select(ls, i, lk, max_num, max_den, max_locker) ==
    IF i > Len(ls)
    THEN max_locker
    ELSE IF /\ lk[ls[i]].available_capability > 0
            /\ RateGreater(lk[ls[i]].available_capability, lk[ls[i]].capability,
                           max_num, max_den)
         THEN SuperLockerRobot_select(ls, i + 1, lk,
                                      lk[ls[i]].available_capability,
                                      lk[ls[i]].capability, ls[i])
         ELSE SuperLockerRobot_select(ls, i + 1, lk, max_num, max_den, max_locker)

\* SuperLockerRobot.store_bag
SuperLockerRobot_store_bag(r, content, lk, ticket) ==
    IF ~isinstance_str(content)
    THEN Raise(lk, "TypeError", "Bag content must be a string")
    ELSE LET locker == SuperLockerRobot_select(units[r].lockers, 1, lk, 0, 1, "None")
         IN  IF locker = "None"
             THEN Raise(lk, "ValueError", "All lockers are full")
             ELSE Locker_store_bag(locker, content, lk, ticket)

\* SuperLockerRobot.retrieve_bag: linear scan by delegation
RECURSIVE SuperLockerRobot_retrieve_loop(_, _, _, _)
SuperLockerRobot_retrieve_loop(ls, i, ticket, lk) ==
    IF i > Len(ls)
    THEN Raise(lk, "ValueError", "Invalid ticket")
    ELSE LET r == Locker_retrieve_bag(ls[i], ticket, lk)
         IN  IF r.raised = "ValueError"
             THEN SuperLockerRobot_retrieve_loop(ls, i + 1, ticket, r.lockers)
             ELSE r

SuperLockerRobot_retrieve_bag(r, ticket, lk) ==
    SuperLockerRobot_retrieve_loop(units[r].lockers, 1, ticket, lk)

----------------------------------------------------------------------------
(* LockerRobotManager.  units[m].robots holds anything with store_bag and  *)
(* retrieve_bag methods; the call robot.store_bag(content) is dispatched   *)
(* on the class of the object.                                             *)

RECURSIVE store_bag(_, _, _, _)
RECURSIVE retrieve_bag(_, _, _)

\* the second loop without "if locker.available_capability > 0": the first
\* own locker is asked whatever its state, and its exception leaves the call
LockerRobotManager_store_lockers_NoTest(ls, i, content, lk, ticket) ==
    IF i > Len(ls)
    THEN Raise(lk, "ValueError", "All lockers are full")
    ELSE Locker_store_bag(ls[i], content, lk, ticket)

\* second loop of LockerRobotManager.store_bag: the manager's own lockers
RECURSIVE LockerRobotManager_store_lockers(_, _, _, _, _)
LockerRobotManager_store_lockers(ls, i, content, lk, ticket) ==
    IF i > Len(ls)
    THEN Raise(lk, "ValueError", "All lockers are full")
    ELSE IF lk[ls[i]].available_capability > 0
         THEN Locker_store_bag(ls[i], content, lk, ticket)
         ELSE LockerRobotManager_store_lockers(ls, i + 1, content, lk, ticket)

\* the first loop without "except ValueError: continue": the ValueError of
\* the first robot leaves the call
LockerRobotManager_store_robots_NoCatch(m, i, content, lk, ticket) ==
    IF i > Len(units[m].robots)
    THEN LockerRobotManager_store_lockers(units[m].lockers, 1, content, lk, ticket)
    ELSE store_bag(units[m].robots[i], content, lk, ticket)

\* first loop of LockerRobotManager.store_bag: the robots; a ValueError of
\* a robot means "try the next one", any other outcome is the call's outcome
RECURSIVE LockerRobotManager_store_robots(_, _, _, _, _)
LockerRobotManager_store_robots(m, i, content, lk, ticket) ==
    IF i > Len(units[m].robots)
    THEN LockerRobotManager_store_lockers(units[m].lockers, 1, content, lk, ticket)
    ELSE LET r == store_bag(units[m].robots[i], content, lk, ticket)
         IN  IF r.raised = "ValueError"
             THEN LockerRobotManager_store_robots(m, i + 1, content, r.lockers, ticket)
             ELSE r

\* LockerRobotManager.store_bag with the two loops in the other order
LockerRobotManager_store_bag_LockersFirst(m, content, lk, ticket) ==
    IF ~isinstance_str(content)
    THEN Raise(lk, "TypeError", "Bag content must be a string")
    ELSE LET r == LockerRobotManager_store_lockers(units[m].lockers, 1, content, lk, ticket)
         IN  IF r.raised = "ValueError"
             THEN LockerRobotManager_store_robots(m, 1, content, r.lockers, ticket)
             ELSE r

\* LockerRobotManager.store_bag
LockerRobotManager_store_bag(m, content, lk, ticket) ==
    IF ~isinstance_str(content)
    THEN Raise(lk, "TypeError", "Bag content must be a string")
    ELSE LockerRobotManager_store_robots(m, 1, content, lk, ticket)

\* second loop of LockerRobotManager.retrieve_bag: the manager's own lockers
RECURSIVE LockerRobotManager_retrieve_lockers(_, _, _, _)
LockerRobotManager_retrieve_lockers(ls, i, ticket, lk) ==
    IF i > Len(ls)
    THEN Raise(lk, "ValueError", "Invalid ticket")
    ELSE LET r == Locker_retrieve_bag(ls[i], ticket, lk)
         IN  IF r.raised = "ValueError"
             THEN LockerRobotManager_retrieve_lockers(ls, i + 1, ticket, r.lockers)
             ELSE r

\* the first loop without "except ValueError: continue": the ValueError of
\* the first robot leaves the call
LockerRobotManager_retrieve_robots_NoCatch(m, i, ticket, lk) ==
    IF i > Len(units[m].robots)
    THEN LockerRobotManager_retrieve_lockers(units[m].lockers, 1, ticket, lk)
    ELSE retrieve_bag(units[m].robots[i], ticket, lk)

\* first loop of LockerRobotManager.retrieve_bag: the robots
RECURSIVE LockerRobotManager_retrieve_robots(_, _, _, _)
LockerRobotManager_retrieve_robots(m, i, ticket, lk) ==
    IF i > Len(units[m].robots)
    THEN LockerRobotManager_retrieve_lockers(units[m].lockers, 1, ticket, lk)
    ELSE LET r == retrieve_bag(units[m].robots[i], ticket, lk)
         IN  IF r.raised = "ValueError"
             THEN LockerRobotManager_retrieve_robots(m, i + 1, ticket, r.lockers)
             ELSE r

\* a retrieve_bag that looks the ticket up in every locker there is, as
\* with a registry of tickets shared by all lockers
LockerRobotManager_retrieve_bag_AnyLocker(m, ticket, lk) ==
    IF \E l \in DOMAIN lk : ticket \in DOMAIN lk[l].stored_bags
    THEN Locker_retrieve_bag(CHOOSE l \in DOMAIN lk : ticket \in DOMAIN lk[l].stored_bags,
                             ticket, lk)
    ELSE Raise(lk, "ValueError", "Invalid ticket")

\* LockerRobotManager.retrieve_bag
LockerRobotManager_retrieve_bag(m, ticket, lk) ==
    LockerRobotManager_retrieve_robots(m, 1, ticket, lk)

\* the class of the object named u
ClassOf(u) == IF u \in DOMAIN lockers THEN "Locker" ELSE units[u].kind

\* u.store_bag(content), by the class of u
store_bag(u, content, lk, ticket) ==
    CASE ClassOf(u) = "Locker" -> Locker_store_bag(u, content, lk, ticket)
      [] ClassOf(u) = "PrimaryLockerRobot" -> PrimaryLockerRobot_store_bag(u, content, lk, ticket)
      [] ClassOf(u) = "SmartLockerRobot" -> SmartLockerRobot_store_bag(u, content, lk, ticket)
      [] ClassOf(u) = "SuperLockerRobot" -> SuperLockerRobot_store_bag(u, content, lk, ticket)
      [] ClassOf(u) = "LockerRobotManager" -> LockerRobotManager_store_bag(u, content, lk, ticket)

\* u.retrieve_bag(ticket), by the class of u
retrieve_bag(u, ticket, lk) ==
    CASE ClassOf(u) = "Locker" -> Locker_retrieve_bag(u, ticket, lk)
      [] ClassOf(u) = "PrimaryLockerRobot" -> PrimaryLockerRobot_retrieve_bag(u, ticket, lk)
      [] ClassOf(u) = "SmartLockerRobot" -> SmartLockerRobot_retrieve_bag(u, ticket, lk)
      [] ClassOf(u) = "SuperLockerRobot" -> SuperLockerRobot_retrieve_bag(u, ticket, lk)
      [] ClassOf(u) = "LockerRobotManager" -> LockerRobotManager_retrieve_bag(u, ticket, lk)

----------------------------------------------------------------------------
(* LockerRobotDirector.  A report is a string of lines; a line is kept as  *)
(* the values its f-string is built from: the number of leading spaces,    *)
(* the letter, and the two integers printed in decimal.                    *)

\* f"{' ' * indent}{tag} {available} {max}\n"
Line(indent, tag, available, max) ==
    [indent |-> indent, tag |-> tag, available |-> available, max |-> max]

\* the loop of _calculate_robot_capability over robot.lockers
RECURSIVE LockerRobotDirector_calculate_loop(_, _, _, _, _)
LockerRobotDirector_calculate_loop(ls, i, lk, available, max_capability) ==
    IF i > Len(ls)
    THEN [available |-> available, max |-> max_capability]
    ELSE LockerRobotDirector_calculate_loop(ls, i + 1, lk,
             available + lk[ls[i]].available_capability,
             max_capability + lk[ls[i]].capability)

\* LockerRobotDirector._calculate_robot_capability
LockerRobotDirector_calculate_robot_capability(robot, lk) ==
    LockerRobotDirector_calculate_loop(units[robot].lockers, 1, lk, 0, 0)

\* generateReport, lines 47-49: the manager's own lockers are added to
\* manager_available and manager_max
RECURSIVE LockerRobotDirector_manager_lockers(_, _, _, _, _)
LockerRobotDirector_manager_lockers(ls, i, lk, manager_available, manager_max) ==
    IF i > Len(ls)
    THEN [available |-> manager_available, max |-> manager_max]
    ELSE LockerRobotDirector_manager_lockers(ls, i + 1, lk,
             manager_available + lk[ls[i]].available_capability,
             manager_max + lk[ls[i]].capability)

\* generateReport without lines 52-55: the robots are left out of the
\* manager's totals
LockerRobotDirector_manager_robots_Omitted(rs, i, lk, manager_available, manager_max) ==
    [available |-> manager_available, max |-> manager_max]

\* generateReport, lines 52-55: the robots' totals are added
RECURSIVE LockerRobotDirector_manager_robots(_, _, _, _, _)
LockerRobotDirector_manager_robots(rs, i, lk, manager_available, manager_max) ==
    IF i > Len(rs)
    THEN [available |-> manager_available, max |-> manager_max]
    ELSE LET robot_stats == LockerRobotDirector_calculate_robot_capability(rs[i], lk)
         IN  LockerRobotDirector_manager_robots(rs, i + 1, lk,
                 manager_available + robot_stats.available,
                 manager_max + robot_stats.max)

\* the L lines with locker.capability printed in both columns
RECURSIVE LockerRobotDirector_locker_lines_CapabilityTwice(_, _, _, _, _)
LockerRobotDirector_locker_lines_CapabilityTwice(ls, i, lk, indent, report) ==
    IF i > Len(ls)
    THEN report
    ELSE LockerRobotDirector_locker_lines_CapabilityTwice(ls, i + 1, lk, indent,
             Append(report, Line(indent, "L", lk[ls[i]].capability,
                                              lk[ls[i]].capability)))

\* generateReport, lines 61-62 (indent 4) and 70-73 (indent 8): one L line
\* per locker of the list is appended to the report
RECURSIVE LockerRobotDirector_locker_lines(_, _, _, _, _)
LockerRobotDirector_locker_lines(ls, i, lk, indent, report) ==
    IF i > Len(ls)
    THEN report
    ELSE LockerRobotDirector_locker_lines(ls, i + 1, lk, indent,
             Append(report, Line(indent, "L", lk[ls[i]].available_capability,
                                              lk[ls[i]].capability)))

\* generateReport, lines 65-73: an R line per robot, each followed by the
\* L lines of robot.lockers
RECURSIVE LockerRobotDirector_robot_lines(_, _, _, _)
LockerRobotDirector_robot_lines(rs, i, lk, report) ==
    IF i > Len(rs)
    THEN report
    ELSE LET robot_stats == LockerRobotDirector_calculate_robot_capability(rs[i], lk)
         IN  LockerRobotDirector_robot_lines(rs, i + 1, lk,
                 LockerRobotDirector_locker_lines(units[rs[i]].lockers, 1, lk, 8,
                     Append(report, Line(4, "R", robot_stats.available, robot_stats.max))))

\* the loop over self.managers with the robots reported before the
\* manager's own lockers
RECURSIVE LockerRobotDirector_manager_loop_RobotsFirst(_, _, _, _)
LockerRobotDirector_manager_loop_RobotsFirst(ms, i, lk, report) ==
    IF i > Len(ms)
    THEN report
    ELSE LET own   == LockerRobotDirector_manager_lockers(units[ms[i]].lockers, 1, lk, 0, 0)
             total == LockerRobotDirector_manager_robots(units[ms[i]].robots, 1, lk,
                                                         own.available, own.max)
         IN  LockerRobotDirector_manager_loop_RobotsFirst(ms, i + 1, lk,
                 LockerRobotDirector_locker_lines(units[ms[i]].lockers, 1, lk, 4,
                     LockerRobotDirector_robot_lines(units[ms[i]].robots, 1, lk,
                         Append(report, Line(0, "M", total.available, total.max)))))

\* generateReport, lines 41-73: the loop over self.managers
RECURSIVE LockerRobotDirector_manager_loop(_, _, _, _)
LockerRobotDirector_manager_loop(ms, i, lk, report) ==
    IF i > Len(ms)
    THEN report
    ELSE LET own   == LockerRobotDirector_manager_lockers(units[ms[i]].lockers, 1, lk, 0, 0)
             total == LockerRobotDirector_manager_robots(units[ms[i]].robots, 1, lk,
                                                         own.available, own.max)
         IN  LockerRobotDirector_manager_loop(ms, i + 1, lk,
                 LockerRobotDirector_robot_lines(units[ms[i]].robots, 1, lk,
                     LockerRobotDirector_locker_lines(units[ms[i]].lockers, 1, lk, 4,
                         Append(report, Line(0, "M", total.available, total.max)))))

\* hasattr(x, "lockers"): a robot and a manager have the attribute, a
\* Locker has not
hasattr_lockers(x) == x \in DOMAIN units /\ "lockers" \in DOMAIN units[x]

\* LockerRobotDirector.generateReport: nothing is assigned but the local
\* report, which starts empty.  "robot.lockers" (line 90, reached from
\* line 53) raises AttributeError for an item of manager.robots that has no
\* such attribute; nothing has been changed by then and the report built
\* so far is dropped
LockerRobotDirector_generateReport(d, lk) ==
    IF \E i \in 1..Len(units[d].managers) :
           \E j \in 1..Len(units[units[d].managers[i]].robots) :
               ~hasattr_lockers(units[units[d].managers[i]].robots[j])
    THEN Raise(lk, "AttributeError", "'Locker' object has no attribute 'lockers'")
    ELSE Return(lk, LockerRobotDirector_manager_loop(units[d].managers, 1, lk, <<>>))

----------------------------------------------------------------------------
(* Object graphs.  A graph is what a caller builds with the constructors:  *)
(* Locker objects with their capabilities and aggregators over them.       *)

RobotKinds == {"PrimaryLockerRobot", "SmartLockerRobot", "SuperLockerRobot"}

\* PrimaryLockerRobot(ls), SmartLockerRobot(ls), SuperLockerRobot(ls)
Robot(kind, ls) == [kind |-> kind, lockers |-> ls, robots |-> <<>>]

\* LockerRobotManager(ls, rs)
LockerRobotManager(ls, rs) == [kind |-> "LockerRobotManager", lockers |-> ls, robots |-> rs]

\* no aggregator at all
NoUnits == [u \in {} |-> Robot("PrimaryLockerRobot", <<>>)]

\* a single locker of any capability
LockerGraphs ==
    { [caps |-> [l \in {"L1"} |-> c], units |-> NoUnits] : c \in 1..MaxCap }

\* locker1 = Locker(2), locker2 = Locker(3) and
\* robot = SmartLockerRobot([locker1, locker2])
SmartTestGraphs ==
    { [caps  |-> [l \in {"locker1", "locker2"} |->
                    IF l = "locker1" THEN 2 ELSE 3],
       units |-> [u \in {"robot"} |->
                    Robot("SmartLockerRobot", <<"locker1", "locker2">>)]] }

\* the name of the k-th manager of a nest, the outermost being the first,
\* and of the locker it owns
ManagerName(k) == "M" \o ToString(k)

LockerName(k) == "L" \o ToString(k)

\* d managers, each with one own locker of capability 1 and, but for the
\* innermost, the next manager as its only item of robots
NestedChain(d) ==
    [caps  |-> [l \in {LockerName(k) : k \in 1..d} |-> 1],
     units |-> [u \in {ManagerName(k) : k \in 1..d} |->
                  LET k == CHOOSE j \in 1..d : ManagerName(j) = u
                  IN  LockerRobotManager(<<LockerName(k)>>,
                                         IF k < d THEN <<ManagerName(k + 1)>> ELSE <<>>)]]

\* a manager without lockers whose robots are two managers of one locker each
NestedSiblings ==
    [caps  |-> [l \in {"L2", "L3"} |-> 1],
     units |-> [u \in {"M1", "M2", "M3"} |->
                  CASE u = "M1" -> LockerRobotManager(<<>>, <<"M2", "M3">>)
                    [] u = "M2" -> LockerRobotManager(<<"L2">>, <<>>)
                    [] u = "M3" -> LockerRobotManager(<<"L3">>, <<>>)]]

NestedGraphs == {NestedChain(d) : d \in 2..MaxDepth} \cup {NestedSiblings}

\* one robot of each kind over the same two lockers, of any capabilities
RobotGraphs ==
    { [caps  |-> [l \in {"L1", "L2"} |-> c[l]],
       units |-> [u \in {"P", "S", "U"} |->
                    Robot(CASE u = "P" -> "PrimaryLockerRobot"
                            [] u = "S" -> "SmartLockerRobot"
                            [] u = "U" -> "SuperLockerRobot",
                          <<"L1", "L2">>)]] :
      c \in [{"L1", "L2"} -> 1..MaxCap] }

\* a manager with one own locker and two single-locker robots
ManagerGraphs1 ==
    { [caps  |-> [l \in {"L1", "L2", "L3"} |-> 1],
       units |-> [u \in {"A", "B", "M"} |->
                    CASE u = "A" -> Robot("PrimaryLockerRobot", <<"L1">>)
                      [] u = "B" -> Robot("SmartLockerRobot", <<"L2">>)
                      [] u = "M" -> LockerRobotManager(<<"L3">>, <<"A", "B">>)]] }

\* a manager with two own lockers and one robot
ManagerGraphs2 ==
    { [caps  |-> [l \in {"L1", "L2", "L3"} |-> 1],
       units |-> [u \in {"A", "M"} |->
                    CASE u = "A" -> Robot("PrimaryLockerRobot", <<"L1">>)
                      [] u = "M" -> LockerRobotManager(<<"L2", "L3">>, <<"A">>)]] }

\* a manager with no own locker and one robot over two lockers
ManagerGraphs3 ==
    { [caps  |-> [l \in {"L1", "L2"} |-> 1],
       units |-> [u \in {"A", "M"} |->
                    CASE u = "A" -> Robot("SuperLockerRobot", <<"L1", "L2">>)
                      [] u = "M" -> LockerRobotManager(<<>>, <<"A">>)]] }

\* LockerRobotDirector(ms)
LockerRobotDirector(ms) == [kind |-> "LockerRobotDirector", managers |-> ms]

\* a director over a manager with two own lockers and a robot
DirectorGraphs1 ==
    { [caps  |-> [l \in {"L1", "L2", "L3"} |->
                    CASE l = "L1" -> 1 [] l = "L2" -> 2 [] l = "L3" -> 3],
       units |-> [u \in {"A", "M", "D"} |->
                    CASE u = "A" -> Robot("SuperLockerRobot", <<"L3">>)
                      [] u = "M" -> LockerRobotManager(<<"L1", "L2">>, <<"A">>)
                      [] u = "D" -> LockerRobotDirector(<<"M">>)]] }

\* a director over a manager with no own locker and two robots, the second
\* over two lockers
DirectorGraphs2 ==
    { [caps  |-> [l \in {"L1", "L2", "L3"} |->
                    CASE l = "L1" -> 2 [] l = "L2" -> 1 [] l = "L3" -> 2],
       units |-> [u \in {"A", "B", "M", "D"} |->
                    CASE u = "A" -> Robot("PrimaryLockerRobot", <<"L1">>)
                      [] u = "B" -> Robot("SmartLockerRobot", <<"L2", "L3">>)
                      [] u = "M" -> LockerRobotManager(<<>>, <<"A", "B">>)
                      [] u = "D" -> LockerRobotDirector(<<"M">>)]] }

\* a director over two managers, the first with a locker and a robot, the
\* second with a locker only
DirectorGraphs3 ==
    { [caps  |-> [l \in {"L1", "L2", "L3"} |->
                    CASE l = "L1" -> 2 [] l = "L2" -> 3 [] l = "L3" -> 1],
       units |-> [u \in {"A", "M1", "M2", "D"} |->
                    CASE u = "A"  -> Robot("PrimaryLockerRobot", <<"L2">>)
                      [] u = "M1" -> LockerRobotManager(<<"L1">>, <<"A">>)
                      [] u = "M2" -> LockerRobotManager(<<"L3">>, <<>>)
                      [] u = "D"  -> LockerRobotDirector(<<"M1", "M2">>)]] }

DirectorGraphs == DirectorGraphs1 \cup DirectorGraphs2 \cup DirectorGraphs3

\* one-slot lockers: a manager "H" with an own locker and a SmartLockerRobot
\* over two lockers
HierarchyGraphs1 ==
    { [caps  |-> [l \in {"L1", "L2", "L3"} |-> 1],
       units |-> [u \in {"A", "H"} |->
                    CASE u = "A" -> Robot("SmartLockerRobot", <<"L1", "L2">>)
                      [] u = "H" -> LockerRobotManager(<<"L3">>, <<"A">>)]] }

\* a manager "H" with an own locker and a PrimaryLockerRobot over one
\* locker, and a locker L3 that belongs to nobody
HierarchyGraphs2 ==
    { [caps  |-> [l \in {"L1", "L2", "L3"} |-> 1],
       units |-> [u \in {"A", "H"} |->
                    CASE u = "A" -> Robot("PrimaryLockerRobot", <<"L1">>)
                      [] u = "H" -> LockerRobotManager(<<"L2">>, <<"A">>)]] }

\* a manager "H" with no own locker and a SuperLockerRobot over two lockers
HierarchyGraphs3 ==
    { [caps  |-> [l \in {"L1", "L2"} |-> 1],
       units |-> [u \in {"A", "H"} |->
                    CASE u = "A" -> Robot("SuperLockerRobot", <<"L1", "L2">>)
                      [] u = "H" -> LockerRobotManager(<<>>, <<"A">>)]] }

HierarchyGraphs == HierarchyGraphs1 \cup HierarchyGraphs2 \cup HierarchyGraphs3

Graphs == LockerGraphs \cup ManagerGraphs1 \cup ManagerGraphs2 \cup ManagerGraphs3

----------------------------------------------------------------------------
(* State machine *)

\* no thread but the caller's: every method call is one step
NoThreads ==
    [atomic |-> TRUE, raced |-> FALSE,
     call |-> [t \in {} |-> [pc |-> "idle", self |-> "None",
                             content |-> NoneContent, observed |-> 0]]]

\* the state after the constructors of graph g have run
Constructed(g) ==
    /\ lockers = [l \in DOMAIN g.caps |-> Locker(g.caps[l])]
    /\ units = g.units
    /\ uuidCount = 0
    /\ last = [op |-> "init", unit |-> "None", content |-> NoneContent,
               ticket |-> NoneTicket, raised |-> "", msg |-> "", report |-> <<>>]
    /\ retrieved = {}
    /\ threads = NoThreads

Init == \E g \in Graphs : Constructed(g)

InitRobots == \E g \in RobotGraphs : Constructed(g)

InitDirector == \E g \in DirectorGraphs : Constructed(g)

InitHierarchy == \E g \in HierarchyGraphs : Constructed(g)

InitSmartTest == \E g \in SmartTestGraphs : Constructed(g)

InitNested == \E g \in NestedGraphs : Constructed(g)

\* the objects of a class
Objects(class) == {u \in (DOMAIN lockers) \cup (DOMAIN units) : ClassOf(u) = class}

\* tickets a caller can present: every uuid issued so far, a string that is
\* no issued ticket, and a value that is not a string
TicketArgs == {uuid4(n) : n \in 1..uuidCount} \cup {InvalidTicketString, NoneTicket}

\* the number of uuid4() calls the behaviours of the object graph are cut at
TicketLimit ==
    IF DOMAIN units = {"P", "S", "U"} THEN MaxRobotTickets
    ELSE IF "D" \in DOMAIN units THEN MaxDirectorTickets
    ELSE IF "H" \in DOMAIN units THEN MaxHierarchyTickets
    ELSE IF "robot" \in DOMAIN units THEN MaxSmartTestTickets
    ELSE IF "M1" \in DOMAIN units THEN MaxNestedTickets
    ELSE MaxTickets

\* a call u.store_bag(content)
StoreCall(u, content) ==
    LET r == store_bag(u, content, lockers, uuid4(uuidCount + 1))
    IN  /\ r.raised # "" \/ uuidCount < TicketLimit
        /\ lockers' = r.lockers
        /\ uuidCount' = IF r.raised = "" THEN uuidCount + 1 ELSE uuidCount
        /\ last' = [op |-> "store_bag", unit |-> u, content |-> content,
                    ticket |-> IF r.raised = "" THEN r.ret ELSE NoneTicket,
                    raised |-> r.raised, msg |-> r.msg, report |-> <<>>]
        /\ UNCHANGED <<units, retrieved, threads>>

\* a call u.retrieve_bag(ticket)
RetrieveCall(u, ticket) ==
    LET r == retrieve_bag(u, ticket, lockers)
    IN  /\ lockers' = r.lockers
        /\ last' = [op |-> "retrieve_bag", unit |-> u, content |-> r.ret,
                    ticket |-> ticket, raised |-> r.raised, msg |-> r.msg,
                    report |-> <<>>]
        /\ retrieved' = IF r.raised = "" THEN retrieved \cup {ticket} ELSE retrieved
        /\ UNCHANGED <<units, uuidCount, threads>>

\* a call d.generateReport() that prepends what the previous call returned
GenerateReportCall_Accumulates(d) ==
    LET r == LockerRobotDirector_generateReport(d, lockers)
    IN  /\ lockers' = r.lockers
        /\ last' = [op |-> "generateReport", unit |-> d, content |-> NoneContent,
                    ticket |-> NoneTicket, raised |-> r.raised, msg |-> r.msg,
                    report |-> last.report \o r.ret]
        /\ UNCHANGED <<units, uuidCount, retrieved, threads>>

\* a call d.generateReport()
GenerateReportCall(d) ==
    LET r == LockerRobotDirector_generateReport(d, lockers)
    IN  /\ lockers' = r.lockers
        /\ last' = [op |-> "generateReport", unit |-> d, content |-> NoneContent,
                    ticket |-> NoneTicket, raised |-> r.raised, msg |-> r.msg,
                    report |-> r.ret]
        /\ UNCHANGED <<units, uuidCount, retrieved, threads>>

LockerStoreBag == \E l \in Objects("Locker"), c \in Contents : StoreCall(l, c)

LockerRetrieveBag == \E l \in Objects("Locker"), t \in TicketArgs : RetrieveCall(l, t)

PrimaryStoreBag == \E r \in Objects("PrimaryLockerRobot"), c \in Contents : StoreCall(r, c)

PrimaryRetrieveBag == \E r \in Objects("PrimaryLockerRobot"), t \in TicketArgs : RetrieveCall(r, t)

SmartStoreBag == \E r \in Objects("SmartLockerRobot"), c \in Contents : StoreCall(r, c)

SmartRetrieveBag == \E r \in Objects("SmartLockerRobot"), t \in TicketArgs : RetrieveCall(r, t)

SuperStoreBag == \E r \in Objects("SuperLockerRobot"), c \in Contents : StoreCall(r, c)

SuperRetrieveBag == \E r \in Objects("SuperLockerRobot"), t \in TicketArgs : RetrieveCall(r, t)

ManagerStoreBag == \E m \in Objects("LockerRobotManager"), c \in Contents : StoreCall(m, c)

ManagerRetrieveBag == \E m \in Objects("LockerRobotManager"), t \in TicketArgs : RetrieveCall(m, t)

DirectorGenerateReport == \E d \in Objects("LockerRobotDirector") : GenerateReportCall(d)

Next ==
    \/ LockerStoreBag
    \/ LockerRetrieveBag
    \/ PrimaryStoreBag
    \/ PrimaryRetrieveBag
    \/ SmartStoreBag
    \/ SmartRetrieveBag
    \/ SuperStoreBag
    \/ SuperRetrieveBag
    \/ ManagerStoreBag
    \/ ManagerRetrieveBag

Spec == Init /\ [][Next]_vars

\* the robots alone, over lockers of every capability
NextRobots ==
    \/ LockerStoreBag
    \/ LockerRetrieveBag
    \/ PrimaryStoreBag
    \/ PrimaryRetrieveBag
    \/ SmartStoreBag
    \/ SmartRetrieveBag
    \/ SuperStoreBag
    \/ SuperRetrieveBag

SpecRobots == InitRobots /\ [][NextRobots]_vars

\* the calls of the Smart robot's three-bag test: every call is made on the robot
NextSmartTest ==
    \/ SmartStoreBag
    \/ SmartRetrieveBag

SpecSmartTest == InitSmartTest /\ [][NextSmartTest]_vars

\* managers nested in managers: calls on every manager and on every locker
NextNested ==
    \/ LockerStoreBag
    \/ LockerRetrieveBag
    \/ ManagerStoreBag
    \/ ManagerRetrieveBag

SpecNested == InitNested /\ [][NextNested]_vars

----------------------------------------------------------------------------
(* Two threads that call store_bag on one Locker.  A call is two steps:    *)
(* the tests of lines 39-43, then the mutation of lines 46-54.  The        *)
(* threads are scheduled in one of two ways, fixed at the start: freely,   *)
(* so that a thread may run its tests while the other is between its tests *)
(* and its mutation, or with the two steps of a call atomic together, so   *)
(* that no call on the locker begins while another is inside.              *)

RaceThreads == {"T1", "T2"}

\* a thread outside store_bag that has observed nothing yet
IdleThread ==
    [pc |-> "idle", self |-> "None", content |-> NoneContent, observed |-> 0]

InitRace ==
    \E g \in LockerGraphs, a \in BOOLEAN :
        /\ lockers = [l \in DOMAIN g.caps |-> Locker(g.caps[l])]
        /\ units = g.units
        /\ uuidCount = 0
        /\ last = [op |-> "init", unit |-> "None", content |-> NoneContent,
                   ticket |-> NoneTicket, raised |-> "", msg |-> "", report |-> <<>>]
        /\ retrieved = {}
        /\ threads = [atomic |-> a, raced |-> FALSE,
                      call |-> [t \in RaceThreads |-> IdleThread]]

\* the threads that have passed the tests of l.store_bag and not yet mutated
InCall(l) ==
    {t \in DOMAIN threads.call :
        threads.call[t].pc = "mutate" /\ threads.call[t].self = l}

\* thread t enters l.store_bag(content) and runs lines 39-43
ThreadTest(t, l, content) ==
    LET r == Locker_store_bag_test(l, content, lockers)
    IN  /\ threads.call[t].pc = "idle"
        /\ threads.atomic => InCall(l) = {}
        /\ \/ r.raised # ""
           \/ uuidCount + Cardinality(InCall(l)) < MaxRaceTickets
        /\ IF r.raised # ""
           THEN /\ last' = [op |-> "store_bag", unit |-> l, content |-> content,
                            ticket |-> NoneTicket, raised |-> r.raised,
                            msg |-> r.msg, report |-> <<>>]
                /\ UNCHANGED threads
           ELSE /\ threads' =
                       [threads EXCEPT
                           !.call[t] = [pc |-> "mutate", self |-> l,
                                        content |-> content,
                                        observed |-> lockers[l].available_capability],
                           !.raced = @ \/ InCall(l) # {}]
                /\ UNCHANGED last
        /\ UNCHANGED <<lockers, units, uuidCount, retrieved>>

\* thread t runs lines 46-54 of the call it is in and returns the ticket
ThreadMutate(t) ==
    LET c == threads.call[t]
        r == Locker_store_bag_mutate(c.self, c.content, lockers, uuid4(uuidCount + 1))
    IN  /\ c.pc = "mutate"
        /\ lockers' = r.lockers
        /\ uuidCount' = uuidCount + 1
        /\ last' = [op |-> "store_bag", unit |-> c.self, content |-> c.content,
                    ticket |-> r.ret, raised |-> "", msg |-> "", report |-> <<>>]
        /\ threads' = [threads EXCEPT !.call[t] = [IdleThread EXCEPT !.observed = c.observed]]
        /\ UNCHANGED <<units, retrieved>>

StoreBagTest ==
    \E t \in RaceThreads, l \in Objects("Locker"), c \in Contents : ThreadTest(t, l, c)

StoreBagMutate == \E t \in RaceThreads : ThreadMutate(t)

NextRace ==
    \/ StoreBagTest
    \/ StoreBagMutate

SpecRace == InitRace /\ [][NextRace]_vars

----------------------------------------------------------------------------
(* The constructors of the aggregators.  An argument is a list of items;   *)
(* an item is an object (its name) or a string that is no object, such as  *)
(* "not a locker".                                                         *)

\* isinstance(x, Locker)
isinstance_Locker(x) == x \in DOMAIN lockers

\* isinstance(x, LockerRobotManager)
isinstance_LockerRobotManager(x) ==
    x \in DOMAIN units /\ units[x].kind = "LockerRobotManager"

\* hasattr(x, "store_bag") and callable(x.store_bag) and the same for
\* retrieve_bag: lockers, robots and managers have both methods
has_store_and_retrieve(x) ==
    \/ x \in DOMAIN lockers
    \/ x \in DOMAIN units /\ units[x].kind \in RobotKinds \cup {"LockerRobotManager"}

\* SmartLockerRobot.__init__
SmartLockerRobot__init__(ls) ==
    IF ls = <<>>
    THEN Raise(lockers, "ValueError", "Must provide at least one locker")
    ELSE IF ~\A i \in 1..Len(ls) : isinstance_Locker(ls[i])
    THEN Raise(lockers, "TypeError", "All items must be Locker instances")
    ELSE Return(lockers, Robot("SmartLockerRobot", ls))

\* PrimaryLockerRobot.__init__
PrimaryLockerRobot__init__(ls) ==
    IF ls = <<>>
    THEN Raise(lockers, "ValueError", "Must provide at least one locker")
    ELSE IF ~\A i \in 1..Len(ls) : isinstance_Locker(ls[i])
    THEN Raise(lockers, "TypeError", "All items must be Locker instances")
    ELSE Return(lockers, Robot("PrimaryLockerRobot", ls))

\* SuperLockerRobot.__init__
SuperLockerRobot__init__(ls) ==
    IF ls = <<>>
    THEN Raise(lockers, "ValueError", "Must provide at least one locker")
    ELSE IF ~\A i \in 1..Len(ls) : isinstance_Locker(ls[i])
    THEN Raise(lockers, "TypeError", "All items must be Locker instances")
    ELSE Return(lockers, Robot("SuperLockerRobot", ls))

\* LockerRobotManager.__init__ with "or" for "and" in the test of line 23
LockerRobotManager__init___EitherEmpty(ls, rs) ==
    IF ls = <<>> \/ rs = <<>>
    THEN Raise(lockers, "ValueError", "Must provide at least one locker or one robot")
    ELSE IF ls # <<>> /\ ~\A i \in 1..Len(ls) : isinstance_Locker(ls[i])
    THEN Raise(lockers, "TypeError", "All items in lockers must be Locker instances")
    ELSE IF \E i \in 1..Len(rs) : ~has_store_and_retrieve(rs[i])
    THEN Raise(lockers, "TypeError",
               "All items in robots must have store_bag and retrieve_bag methods")
    ELSE Return(lockers, LockerRobotManager(ls, rs))

\* LockerRobotManager.__init__
LockerRobotManager__init__(ls, rs) ==
    IF ls = <<>> /\ rs = <<>>
    THEN Raise(lockers, "ValueError", "Must provide at least one locker or one robot")
    ELSE IF ls # <<>> /\ ~\A i \in 1..Len(ls) : isinstance_Locker(ls[i])
    THEN Raise(lockers, "TypeError", "All items in lockers must be Locker instances")
    ELSE IF \E i \in 1..Len(rs) : ~has_store_and_retrieve(rs[i])
    THEN Raise(lockers, "TypeError",
               "All items in robots must have store_bag and retrieve_bag methods")
    ELSE Return(lockers, LockerRobotManager(ls, rs))

\* LockerRobotDirector.__init__
LockerRobotDirector__init__(ms) ==
    IF ms = <<>>
    THEN Raise(lockers, "ValueError", "Must provide at least one manager")
    ELSE IF ~\A i \in 1..Len(ms) : isinstance_LockerRobotManager(ms[i])
    THEN Raise(lockers, "TypeError", "All items must be LockerRobotManager instances")
    ELSE Return(lockers, LockerRobotDirector(ms))

\* the lists handed to a constructor as lockers
LockerArgs ==
    {<<>>, <<"L1">>, <<"L1", "L2">>, <<"not a locker">>, <<"L1", "not a locker">>}

\* the lists handed to LockerRobotManager as robots: objects built so far,
\* a locker, and a string
RobotArgs ==
    {<<>>, <<"L1">>, <<"not a robot">>}
        \cup {<<u>> : u \in DOMAIN units}
        \cup {<<u, "not a robot">> : u \in DOMAIN units}

\* the lists handed to LockerRobotDirector as managers
ManagerArgs ==
    {<<>>, <<"not a manager">>}
        \cup {<<u>> : u \in DOMAIN units}
        \cup {<<u, "not a manager">> : u \in DOMAIN units}

\* the name of the n-th aggregator built
UnitName(n) == "U" \o ToString(n)

\* a constructor call of the given class with outcome r: the object exists
\* afterwards when the constructor returned
ConstructCall(class, r) ==
    LET u == UnitName(Cardinality(DOMAIN units) + 1)
    IN  /\ r.raised # "" \/ Cardinality(DOMAIN units) < MaxUnits
        /\ units' = IF r.raised = ""
                     THEN [x \in (DOMAIN units) \cup {u} |->
                              IF x = u THEN r.ret ELSE units[x]]
                     ELSE units
        /\ last' = [op |-> "__init__", unit |-> IF r.raised = "" THEN u ELSE "None",
                    content |-> Str(class), ticket |-> NoneTicket,
                    raised |-> r.raised, msg |-> r.msg, report |-> <<>>]
        /\ UNCHANGED <<lockers, uuidCount, retrieved, threads>>

NewPrimaryLockerRobot ==
    \E ls \in LockerArgs : ConstructCall("PrimaryLockerRobot", PrimaryLockerRobot__init__(ls))

NewSmartLockerRobot ==
    \E ls \in LockerArgs : ConstructCall("SmartLockerRobot", SmartLockerRobot__init__(ls))

NewSuperLockerRobot ==
    \E ls \in LockerArgs : ConstructCall("SuperLockerRobot", SuperLockerRobot__init__(ls))

NewLockerRobotManager ==
    \E ls \in LockerArgs, rs \in RobotArgs :
        ConstructCall("LockerRobotManager", LockerRobotManager__init__(ls, rs))

NewLockerRobotDirector ==
    \E ms \in ManagerArgs :
        ConstructCall("LockerRobotDirector", LockerRobotDirector__init__(ms))

\* two lockers and no aggregator yet
InitConstruct ==
    Constructed([caps |-> [l \in {"L1", "L2"} |-> 1], units |-> NoUnits])

NextConstruct ==
    \/ NewPrimaryLockerRobot
    \/ NewSmartLockerRobot
    \/ NewSuperLockerRobot
    \/ NewLockerRobotManager
    \/ NewLockerRobotDirector

SpecConstruct == InitConstruct /\ [][NextConstruct]_vars

\* the hierarchies below a director
NextDirector ==
    \/ LockerStoreBag
    \/ LockerRetrieveBag
    \/ PrimaryStoreBag
    \/ PrimaryRetrieveBag
    \/ SmartStoreBag
    \/ SmartRetrieveBag
    \/ SuperStoreBag
    \/ SuperRetrieveBag
    \/ ManagerStoreBag
    \/ ManagerRetrieveBag
    \/ DirectorGenerateReport

SpecDirector == InitDirector /\ [][NextDirector]_vars

\* the one-slot hierarchies: the calls are those of Next
SpecHierarchy == InitHierarchy /\ [][Next]_vars

\* a director over a manager whose robots hold a bare Locker:
\* LockerRobotManager([Locker(1)], [Locker(2)])
StorageUnitGraphs1 ==
    { [caps  |-> [l \in {"L1", "L2"} |-> IF l = "L1" THEN 1 ELSE 2],
       units |-> [u \in {"M", "D"} |->
                    CASE u = "M" -> LockerRobotManager(<<"L1">>, <<"L2">>)
                      [] u = "D" -> LockerRobotDirector(<<"M">>)]] }

\* a director over a manager whose robots hold a manager that has a
\* manager among its own robots
StorageUnitGraphs2 ==
    { [caps  |-> [l \in {"L1", "L2"} |-> IF l = "L1" THEN 1 ELSE 2],
       units |-> [u \in {"K", "N", "M", "D"} |->
                    CASE u = "K" -> LockerRobotManager(<<"L2">>, <<>>)
                      [] u = "N" -> LockerRobotManager(<<"L1">>, <<"K">>)
                      [] u = "M" -> LockerRobotManager(<<>>, <<"N">>)
                      [] u = "D" -> LockerRobotDirector(<<"M">>)]] }

\* a director over a manager whose robots hold a manager of lockers only
StorageUnitGraphs3 ==
    { [caps  |-> [l \in {"L1", "L2"} |-> IF l = "L1" THEN 1 ELSE 2],
       units |-> [u \in {"N", "M", "D"} |->
                    CASE u = "N" -> LockerRobotManager(<<"L2">>, <<>>)
                      [] u = "M" -> LockerRobotManager(<<"L1">>, <<"N">>)
                      [] u = "D" -> LockerRobotDirector(<<"M">>)]] }

StorageUnitGraphs == StorageUnitGraphs1 \cup StorageUnitGraphs2 \cup StorageUnitGraphs3

InitStorageUnits == \E g \in StorageUnitGraphs : Constructed(g)

\* the calls on the lockers, the managers and the director
NextStorageUnits ==
    \/ LockerStoreBag
    \/ LockerRetrieveBag
    \/ ManagerStoreBag
    \/ ManagerRetrieveBag
    \/ DirectorGenerateReport

SpecStorageUnits == InitStorageUnits /\ [][NextStorageUnits]_vars

----------------------------------------------------------------------------
(* Vocabulary of the properties *)

\* the string payloads
StringContents == {c \in Contents : isinstance_str(c)}

\* the call made by the step is u.store_bag(...), u of the given class
StepStores(class) == last'.op = "store_bag" /\ ClassOf(last'.unit) = class

\* the call made by the step is u.retrieve_bag(...)
StepRetrieves == last'.op = "retrieve_bag"

\* the most recent call was op on an object of the given class
LastCall(op, class) == last.op = op /\ ClassOf(last.unit) = class

----------------------------------------------------------------------------
(* C1. Capacity invariant: in every reachable state, whatever calls were   *)
(* made on lockers, robots and managers, every Locker satisfies            *)
(* available_capability + |stored_bags| = capability.                      *)

CapacityInvariant ==
    \A l \in DOMAIN lockers :
        lockers[l].available_capability + Cardinality(DOMAIN lockers[l].stored_bags)
            = lockers[l].capability

\* a manager has just retrieved a bag while another bag is still stored
CapacityInvariantWitness ==
    /\ LastCall("retrieve_bag", "LockerRobotManager")
    /\ last.raised = ""
    /\ \E l \in DOMAIN lockers : lockers[l].stored_bags # EmptyDict

(* C2. Capacity bounds: in every reachable state every Locker has          *)
(* 0 <= available_capability <= capability, also after failed stores and   *)
(* repeated retrieves of one ticket.                                       *)

CapacityBounds ==
    \A l \in DOMAIN lockers :
        /\ 0 <= lockers[l].available_capability
        /\ lockers[l].available_capability <= lockers[l].capability

\* a ticket was retrieved once more after its bag was handed out, and the
\* locker addressed is completely free
CapacityBoundsWitness ==
    /\ LastCall("retrieve_bag", "Locker")
    /\ last.raised = "ValueError"
    /\ last.ticket \in retrieved
    /\ lockers[last.unit].available_capability = lockers[last.unit].capability

(* C3. Locker round trip: in every reachable state, for every locker with   *)
(* a free slot and every string c, store_bag(c) returns a ticket and        *)
(* retrieve_bag of that ticket returns exactly c and leaves                 *)
(* available_capability and stored_bags (of every locker) as they were      *)
(* before the store.                                                        *)

LockerRoundTrip ==
    \A l \in DOMAIN lockers, c \in StringContents :
        lockers[l].available_capability > 0 =>
            LET s == Locker_store_bag(l, c, lockers, uuid4(uuidCount + 1))
                r == Locker_retrieve_bag(l, s.ret, s.lockers)
            IN  /\ s.raised = ""
                /\ r.raised = ""
                /\ r.ret = c
                /\ r.lockers[l].available_capability = lockers[l].available_capability
                /\ r.lockers[l].stored_bags = lockers[l].stored_bags
                /\ r.lockers = lockers

\* the newest ticket has just been retrieved from its locker, which holds
\* another bag besides
LockerRoundTripWitness ==
    /\ LastCall("retrieve_bag", "Locker")
    /\ last.raised = ""
    /\ uuidCount > 0
    /\ last.ticket = uuid4(uuidCount)
    /\ last.content \in StringContents
    /\ lockers[last.unit].stored_bags # EmptyDict
    /\ lockers[last.unit].available_capability > 0

(* C4. Single-use ticket: a retrieve_bag call, on a locker, a robot or a    *)
(* manager, with a ticket that an earlier retrieve_bag call returned a bag  *)
(* for raises ValueError("Invalid ticket") and changes no locker.           *)

SingleUseTicket ==
    [][ (StepRetrieves /\ last'.ticket \in retrieved) =>
            /\ last'.raised = "ValueError"
            /\ last'.msg = "Invalid ticket"
            /\ lockers' = lockers ]_vars

\* a manager was asked a second time for a ticket already retrieved
SingleUseTicketWitness ==
    /\ LastCall("retrieve_bag", "LockerRobotManager")
    /\ last.ticket \in retrieved
    /\ last.raised = "ValueError"

(* C5. Full locker: Locker.store_bag on a locker with available_capability   *)
(* 0 raises, issues no ticket and leaves every locker unchanged; for a       *)
(* string payload the exception is ValueError("Locker is full").             *)

FullLockerRejects ==
    [][ (StepStores("Locker") /\ lockers[last'.unit].available_capability = 0) =>
            /\ last'.raised # ""
            /\ isinstance_str(last'.content) =>
                   (last'.raised = "ValueError" /\ last'.msg = "Locker is full")
            /\ last'.ticket = NoneTicket
            /\ uuidCount' = uuidCount
            /\ lockers' = lockers ]_vars

\* a string payload was refused by a full locker
FullLockerRejectsWitness ==
    /\ LastCall("store_bag", "Locker")
    /\ isinstance_str(last.content)
    /\ last.raised = "ValueError"
    /\ last.msg = "Locker is full"
    /\ lockers[last.unit].available_capability = 0
    /\ lockers[last.unit].stored_bags # EmptyDict

----------------------------------------------------------------------------
(* Vocabulary of the placement properties *)

\* available_capability of the i-th locker of the list ls
Avail(ls, i, lk) == lk[ls[i]].available_capability

\* some locker of the list has a free slot
HasFree(ls, lk) == \E i \in 1..Len(ls) : Avail(ls, i, lk) > 0

\* the index of the first locker of the list with a free slot
FirstFree(ls, lk) ==
    CHOOSE i \in 1..Len(ls) :
        Avail(ls, i, lk) > 0 /\ \A j \in 1..(i - 1) : Avail(ls, j, lk) = 0

\* the step returned a ticket and put the payload under it in locker l
Placed(l) ==
    /\ last'.raised = ""
    /\ last'.ticket \notin DOMAIN lockers[l].stored_bags
    /\ last'.ticket \in DOMAIN lockers'[l].stored_bags
    /\ lockers'[l].stored_bags[last'.ticket] = last'.content

\* the elements of a list
Range(seq) == {seq[i] : i \in 1..Len(seq)}

(* C6. PrimaryLockerRobot first fit: whenever at least one of the robot's   *)
(* lockers has a free slot, store_bag of a string puts it in the first      *)
(* locker, in construction order, with available_capability > 0; every      *)
(* locker before it is full and is not modified.                            *)

PrimaryFirstFit ==
    [][ ( /\ StepStores("PrimaryLockerRobot")
          /\ isinstance_str(last'.content)
          /\ HasFree(units[last'.unit].lockers, lockers) ) =>
            LET ls == units[last'.unit].lockers
                i  == FirstFree(ls, lockers)
            IN  /\ Placed(ls[i])
                /\ \A j \in 1..(i - 1) :
                       /\ Avail(ls, j, lockers) = 0
                       /\ lockers'[ls[j]] = lockers[ls[j]] ]_vars

\* the robot put a bag in its second locker because the first one is full
PrimaryFirstFitWitness ==
    /\ LastCall("store_bag", "PrimaryLockerRobot")
    /\ last.raised = ""
    /\ last.ticket \in DOMAIN lockers[units[last.unit].lockers[2]].stored_bags
    /\ lockers[units[last.unit].lockers[1]].available_capability = 0

(* C7. SmartLockerRobot: whenever at least one of the robot's lockers has   *)
(* a free slot, store_bag of a string puts it in the locker with the        *)
(* greatest available_capability, the earliest in construction order among  *)
(* those tied at the maximum.                                               *)

SuperMaxVacancy ==
    [][ ( /\ StepStores("SuperLockerRobot")
          /\ isinstance_str(last'.content)
          /\ HasFree(units[last'.unit].lockers, lockers) ) =>
            LET ls == units[last'.unit].lockers
                cap(i) == lockers[ls[i]].capability
                \* rate of i >= rate of k, and rate of j < rate of i
                i  == CHOOSE i \in 1..Len(ls) :
                          /\ \A k \in 1..Len(ls) :
                                 Avail(ls, i, lockers) * cap(k) >= Avail(ls, k, lockers) * cap(i)
                          /\ \A j \in 1..(i - 1) :
                                 Avail(ls, j, lockers) * cap(i) < Avail(ls, i, lockers) * cap(j)
            IN  Placed(ls[i]) ]_vars

\* the two lockers had the same vacancy rate, the second one more free slots,
\* and the bag went to the first
SuperMaxVacancyWitness ==
    /\ LastCall("store_bag", "SuperLockerRobot")
    /\ last.raised = ""
    /\ LET l1 == units[last.unit].lockers[1]
           l2 == units[last.unit].lockers[2]
       IN  /\ last.ticket \in DOMAIN lockers[l1].stored_bags
           /\ (lockers[l1].available_capability + 1) * lockers[l2].capability
                  = lockers[l2].available_capability * lockers[l1].capability
           /\ lockers[l2].available_capability > lockers[l1].available_capability + 1

(* C9. Manager fallback order: LockerRobotManager.store_bag of a string     *)
(* puts it in a locker of the first robot, in construction order, that has  *)
(* a free slot; it lands in one of the manager's own lockers only when no   *)
(* robot has a free slot, and then in the first own locker with             *)
(* available_capability > 0.                                                *)

ManagerFallbackOrder ==
    [][ (StepStores("LockerRobotManager") /\ isinstance_str(last'.content)) =>
            LET rs  == units[last'.unit].robots
                own == units[last'.unit].lockers
                free(i) == HasFree(units[rs[i]].lockers, lockers)
            IN  /\ (\E i \in 1..Len(rs) : free(i)) =>
                       LET i == CHOOSE i \in 1..Len(rs) :
                                    free(i) /\ \A j \in 1..(i - 1) : ~free(j)
                       IN  \E l \in Range(units[rs[i]].lockers) : Placed(l)
                /\ \A l \in Range(own) :
                       Placed(l) => /\ \A i \in 1..Len(rs) : ~free(i)
                                    /\ l = own[FirstFree(own, lockers)]
                /\ ((\A i \in 1..Len(rs) : ~free(i)) /\ HasFree(own, lockers)) =>
                       Placed(own[FirstFree(own, lockers)]) ]_vars

\* every robot was full, the manager's first own locker too, and the bag
\* went to the second own locker
ManagerFallbackOrderWitness ==
    /\ LastCall("store_bag", "LockerRobotManager")
    /\ last.raised = ""
    /\ Len(units[last.unit].lockers) = 2
    /\ last.ticket \in DOMAIN lockers[units[last.unit].lockers[2]].stored_bags
    /\ lockers[units[last.unit].lockers[1]].available_capability = 0
    /\ \A r \in Range(units[last.unit].robots) : ~HasFree(units[r].lockers, lockers)

(* C10. Robot-level Full: for each robot class, store_bag of a string       *)
(* raises ValueError("All lockers are full") exactly when every locker of   *)
(* the robot has available_capability 0; no other ValueError is raised, and *)
(* a call that raises changes no locker and issues no ticket.               *)

RobotFull ==
    [][ \A class \in RobotKinds :
            StepStores(class) =>
                LET allFull == ~HasFree(units[last'.unit].lockers, lockers)
                    full    == last'.raised = "ValueError" /\ last'.msg = "All lockers are full"
                IN  /\ isinstance_str(last'.content) => (full <=> allFull)
                    /\ last'.raised = "ValueError" => (full /\ allFull)
                    /\ last'.raised # "" =>
                           (lockers' = lockers /\ uuidCount' = uuidCount) ]_vars

\* a robot refused a string because each of its lockers is full
RobotFullWitness ==
    /\ LastCall("store_bag", "SmartLockerRobot")
    /\ isinstance_str(last.content)
    /\ last.raised = "ValueError"
    /\ last.msg = "All lockers are full"
    /\ \A l \in Range(units[last.unit].lockers) :
           lockers[l].available_capability = 0 /\ lockers[l].stored_bags # EmptyDict

----------------------------------------------------------------------------
(* Vocabulary of the hierarchy properties *)

\* the lockers below manager m: its own and those of its robots
LockersUnder(m) ==
    Range(units[m].lockers)
        \cup UNION {Range(units[r].lockers) : r \in Range(units[m].robots)}

\* the objects of the hierarchy of manager m: m, its robots, the lockers
UnitsUnder(m) == {m} \cup Range(units[m].robots) \cup LockersUnder(m)

\* every locker below m has available_capability 0
AllFull(m) == \A l \in LockersUnder(m) : lockers[l].available_capability = 0

(* C11. Full hierarchy: in every reachable state where every locker below   *)
(* a manager (own lockers and robots' lockers) has available_capability 0,  *)
(* store_bag of a string raises ValueError on every object of the           *)
(* hierarchy, "Locker is full" on a locker and "All lockers are full" on a  *)
(* robot and on the manager, and leaves every locker as it was.             *)

FullHierarchy ==
    \A m \in Objects("LockerRobotManager") :
        AllFull(m) =>
            \A u \in UnitsUnder(m), c \in StringContents :
                LET r == store_bag(u, c, lockers, uuid4(uuidCount + 1))
                IN  /\ r.raised = "ValueError"
                    /\ r.msg = IF ClassOf(u) = "Locker"
                               THEN "Locker is full"
                               ELSE "All lockers are full"
                    /\ r.lockers = lockers

\* a manager with own lockers and robots, all of them full, has just
\* refused a string
FullHierarchyWitness ==
    /\ LastCall("store_bag", "LockerRobotManager")
    /\ isinstance_str(last.content)
    /\ last.raised = "ValueError"
    /\ last.msg = "All lockers are full"
    /\ units[last.unit].lockers # <<>>
    /\ units[last.unit].robots # <<>>
    /\ AllFull(last.unit)

(* C12. Manager round trip: in every reachable state, (a) whenever          *)
(* LockerRobotManager.store_bag(c) returns a ticket, retrieve_bag of that   *)
(* ticket on the manager returns exactly c and leaves every locker, the     *)
(* one that held the bag included, as it was before the store; (b) for      *)
(* every ticket held by a locker below the manager, a robot's or an own     *)
(* one, retrieve_bag on the manager returns the bag stored under it,        *)
(* removes the ticket and gives that locker, and no other, one slot back.   *)

ManagerRoundTrip ==
    \A m \in Objects("LockerRobotManager") :
        /\ \A c \in StringContents :
               LET s == LockerRobotManager_store_bag(m, c, lockers, uuid4(uuidCount + 1))
                   r == LockerRobotManager_retrieve_bag(m, s.ret, s.lockers)
               IN  s.raised = "" =>
                       /\ \E l \in LockersUnder(m) : s.ret \in DOMAIN s.lockers[l].stored_bags
                       /\ r.raised = ""
                       /\ r.ret = c
                       /\ r.lockers = lockers
        /\ \A l \in LockersUnder(m) :
               \A t \in DOMAIN lockers[l].stored_bags :
                   LET r == LockerRobotManager_retrieve_bag(m, t, lockers)
                   IN  /\ r.raised = ""
                       /\ r.ret = lockers[l].stored_bags[t]
                       /\ r.lockers =
                              [lockers EXCEPT ![l].stored_bags = DictDel(@, t),
                                              ![l].available_capability = @ + 1]

\* the manager has just handed out the newest bag, which was in one of its
\* own lockers: its robots are still full, another bag is still stored
ManagerRoundTripWitness ==
    /\ LastCall("retrieve_bag", "LockerRobotManager")
    /\ last.raised = ""
    /\ uuidCount > 0
    /\ last.ticket = uuid4(uuidCount)
    /\ last.content \in StringContents
    /\ units[last.unit].robots # <<>>
    /\ \A r \in Range(units[last.unit].robots) : ~HasFree(units[r].lockers, lockers)
    /\ HasFree(units[last.unit].lockers, lockers)

(* C13. Robot retrieval by linear scan: in every reachable state and for    *)
(* every robot and every ticket a caller can present, retrieve_bag returns  *)
(* the bag stored under the ticket when one of the robot's lockers holds    *)
(* it, whatever the position of that locker and whoever stored the bag      *)
(* (the robot, another robot or the locker itself), taking it out of that   *)
(* locker; it raises ValueError("Invalid ticket") and changes nothing       *)
(* exactly when none of the robot's lockers holds the ticket.               *)

RobotRetrieveScan ==
    \A class \in RobotKinds :
        \A u \in Objects(class), t \in TicketArgs :
            LET ls   == units[u].lockers
                held == {i \in 1..Len(ls) : t \in DOMAIN lockers[ls[i]].stored_bags}
                r    == retrieve_bag(u, t, lockers)
            IN  /\ held # {} =>
                       \E i \in held :
                           /\ r.raised = ""
                           /\ r.ret = lockers[ls[i]].stored_bags[t]
                           /\ r.lockers =
                                  [lockers EXCEPT ![ls[i]].stored_bags = DictDel(@, t),
                                                  ![ls[i]].available_capability = @ + 1]
                /\ held = {} =>
                       /\ r.raised = "ValueError"
                       /\ r.msg = "Invalid ticket"
                       /\ r.lockers = lockers

\* a SmartLockerRobot has just handed out a bag that was in its second
\* locker: the first one is still full
RobotRetrieveScanWitness ==
    /\ LastCall("retrieve_bag", "SmartLockerRobot")
    /\ last.raised = ""
    /\ last.content \in StringContents
    /\ lockers[units[last.unit].lockers[1]].available_capability = 0
    /\ lockers[units[last.unit].lockers[2]].available_capability > 0

(* C14. Invalid content: in every reachable state, store_bag of a payload   *)
(* that is not a string raises TypeError("Bag content must be a string")    *)
(* on every locker, every robot of each class and every manager, with free  *)
(* slots or without; the manager raises the TypeError itself instead of     *)
(* going on to its next child or reporting "All lockers are full"; and the   *)
(* call changes no locker.                                                   *)

\* payloads that are not strings: the integer 123, None and a list
NonStringContents ==
    (Contents \ StringContents)
        \cup {NoneContent, [type |-> "list", value |-> "['item']"]}

InvalidContent ==
    \A u \in (DOMAIN lockers) \cup UNION {Objects(k) : k \in RobotKinds \cup {"LockerRobotManager"}},
       c \in NonStringContents :
        LET r == store_bag(u, c, lockers, uuid4(uuidCount + 1))
        IN  /\ r.raised = "TypeError"
            /\ r.msg = "Bag content must be a string"
            /\ r.lockers = lockers

\* a manager whose first robot has a free slot, and whose own lockers are
\* full, has just refused the integer 123
InvalidContentWitness ==
    /\ LastCall("store_bag", "LockerRobotManager")
    /\ ~isinstance_str(last.content)
    /\ last.raised = "TypeError"
    /\ HasFree(units[units[last.unit].robots[1]].lockers, lockers)
    /\ units[last.unit].lockers # <<>>
    /\ ~HasFree(units[last.unit].lockers, lockers)

(* C15. Ticket uniqueness: the ticket a successful store_bag returns, on a  *)
(* locker, a robot or a manager, differs from every ticket issued before    *)
(* by any locker, and in every reachable state each outstanding ticket      *)
(* (issued and not yet handed back) is a key of stored_bags of exactly one  *)
(* locker, while the lockers hold no other key.                             *)

\* the tickets issued so far
Issued == {uuid4(n) : n \in 1..uuidCount}

\* the lockers holding ticket t
Holders(t) == {l \in DOMAIN lockers : t \in DOMAIN lockers[l].stored_bags}

TicketUniqueness ==
    /\ \A t \in Issued \ retrieved : Cardinality(Holders(t)) = 1
    /\ \A l \in DOMAIN lockers : DOMAIN lockers[l].stored_bags \subseteq Issued \ retrieved
    /\ Cardinality(Issued) = uuidCount
    /\ (last.op = "store_bag" /\ last.raised = "") =>
           /\ last.ticket \notin {uuid4(n) : n \in 1..(uuidCount - 1)}
           /\ last.ticket \notin retrieved
           /\ Cardinality(Holders(last.ticket)) = 1

\* a manager has just issued a third ticket; one earlier ticket was handed
\* back, and the two outstanding ones are in different lockers
TicketUniquenessWitness ==
    /\ LastCall("store_bag", "LockerRobotManager")
    /\ last.raised = ""
    /\ uuidCount = 3
    /\ retrieved # {}
    /\ \E t1, t2 \in Issued \ retrieved : t1 # t2 /\ Holders(t1) # Holders(t2)

----------------------------------------------------------------------------
(* Vocabulary of the report properties *)

\* the sum of a list of numbers
RECURSIVE SeqSum(_)
SeqSum(q) == IF q = <<>> THEN 0 ELSE Head(q) + SeqSum(Tail(q))

\* the number of lines a robot takes: its R line and one L line per locker
RobotBlockLen(r) == 1 + Len(units[r].lockers)

\* the number of lines before the R line of the j-th robot of manager m,
\* counted from the manager's M line
RobotOffset(m, j) ==
    1 + Len(units[m].lockers)
      + SeqSum([i \in 1..(j - 1) |-> RobotBlockLen(units[m].robots[i])])

\* the number of lines a manager takes
ManagerBlockLen(m) == RobotOffset(m, Len(units[m].robots) + 1)

\* the number of lines before the M line of the k-th manager of director d
ManagerOffset(d, k) ==
    SeqSum([i \in 1..(k - 1) |-> ManagerBlockLen(units[d].managers[i])])

\* the L line of locker l at the given indentation
LockerLine(indent, l) ==
    Line(indent, "L", lockers[l].available_capability, lockers[l].capability)

\* the most recent call was generateReport
Reported == last.op = "generateReport"

(* C16. Report structure and order: the report generateReport returns       *)
(* consists, for each manager in the order of director.managers, of one M   *)
(* line, then one L line (indent 4) per own locker in list order, then for  *)
(* each robot in list order one R line (indent 4) followed by one L line    *)
(* (indent 8) per locker of the robot in list order, and of nothing else;   *)
(* every L line carries (available_capability, capability) of its locker    *)
(* at the time of the call.                                                 *)

ReportStructure ==
    Reported =>
        LET d  == last.unit
            ms == units[d].managers
            report == last.report
        IN  /\ Len(report) = ManagerOffset(d, Len(ms) + 1)
            /\ \A k \in 1..Len(ms) :
                   LET base == ManagerOffset(d, k)
                       own  == units[ms[k]].lockers
                       rs   == units[ms[k]].robots
                   IN  /\ report[base + 1].tag = "M"
                       /\ report[base + 1].indent = 0
                       /\ \A j \in 1..Len(own) :
                              report[base + 1 + j] = LockerLine(4, own[j])
                       /\ \A j \in 1..Len(rs) :
                              LET rbase == base + RobotOffset(ms[k], j)
                                  ls    == units[rs[j]].lockers
                              IN  /\ report[rbase + 1].tag = "R"
                                  /\ report[rbase + 1].indent = 4
                                  /\ \A i \in 1..Len(ls) :
                                         report[rbase + 1 + i] = LockerLine(8, ls[i])

\* a report over two managers, the first with an own locker and a robot,
\* made while a locker holds a bag
ReportStructureWitness ==
    /\ Reported
    /\ Len(units[last.unit].managers) = 2
    /\ units[units[last.unit].managers[1]].lockers # <<>>
    /\ units[units[last.unit].managers[1]].robots # <<>>
    /\ \E n \in 1..Len(last.report) :
           last.report[n].tag = "L" /\ last.report[n].available < last.report[n].max

(* C17. Report aggregation: in the report generateReport returns, the R     *)
(* line of each robot carries the sums of available_capability and of       *)
(* capability over the robot's lockers, the M line of each manager the      *)
(* sums over its own lockers plus the lockers of all its robots, and every  *)
(* line, M, R or L, has 0 <= available <= max.                              *)

\* the sums of available_capability and of capability over a list of lockers
SumAvailable(ls) == SeqSum([i \in 1..Len(ls) |-> lockers[ls[i]].available_capability])

SumCapability(ls) == SeqSum([i \in 1..Len(ls) |-> lockers[ls[i]].capability])

ReportAggregation ==
    Reported =>
        LET d  == last.unit
            ms == units[d].managers
            report == last.report
        IN  /\ \A k \in 1..Len(ms) :
                   LET base == ManagerOffset(d, k)
                       own  == units[ms[k]].lockers
                       rs   == units[ms[k]].robots
                   IN  /\ report[base + 1].available =
                              SumAvailable(own)
                                + SeqSum([j \in 1..Len(rs) |-> SumAvailable(units[rs[j]].lockers)])
                       /\ report[base + 1].max =
                              SumCapability(own)
                                + SeqSum([j \in 1..Len(rs) |-> SumCapability(units[rs[j]].lockers)])
                       /\ \A j \in 1..Len(rs) :
                              LET line == report[base + RobotOffset(ms[k], j) + 1]
                              IN  /\ line.available = SumAvailable(units[rs[j]].lockers)
                                  /\ line.max = SumCapability(units[rs[j]].lockers)
            /\ \A n \in 1..Len(report) :
                   0 <= report[n].available /\ report[n].available <= report[n].max

\* a report over a manager with two robots, the second over two lockers of
\* which one holds a bag: its R line shows less available than max
ReportAggregationWitness ==
    /\ Reported
    /\ \E m \in Range(units[last.unit].managers) :
           /\ Len(units[m].robots) = 2
           /\ Len(units[units[m].robots[2]].lockers) = 2
           /\ LET line == last.report[RobotOffset(m, 2) + 1]
              IN  line.tag = "R" /\ 0 < line.available /\ line.available < line.max

(* C18. Report is read-only and repeatable: a generateReport call changes   *)
(* no locker (stored_bags, available_capability) and no list of children of *)
(* a robot, a manager or a director, issues no ticket, and when the call    *)
(* before it was a generateReport on the same director, with no store_bag   *)
(* or retrieve_bag between the two, it returns the same report.             *)

ReportReadOnly ==
    [][ last'.op = "generateReport" =>
            /\ lockers' = lockers
            /\ units' = units
            /\ uuidCount' = uuidCount
            /\ (Reported /\ last.unit = last'.unit) => last'.report = last.report
      ]_vars

\* a report made while lockers hold bags and after a bag was handed back:
\* the bags and the free slots are as they were
ReportReadOnlyWitness ==
    /\ Reported
    /\ last.report # <<>>
    /\ retrieved # {}
    /\ \E l \in DOMAIN lockers :
           /\ lockers[l].stored_bags # EmptyDict
           /\ lockers[l].available_capability < lockers[l].capability

(* C19. Total capacity is immutable: no call, store_bag or retrieve_bag on  *)
(* a locker, a robot or a manager, or generateReport, returning or          *)
(* raising, changes the capability of any Locker.                           *)

CapabilityImmutable ==
    [][ /\ DOMAIN lockers' = DOMAIN lockers
        /\ \A l \in DOMAIN lockers : lockers'[l].capability = lockers[l].capability
      ]_vars

\* a locker that was filled, emptied and filled again has just refused a
\* bag: its capability is still the number of bags it holds
CapabilityImmutableWitness ==
    /\ LastCall("store_bag", "Locker")
    /\ last.raised = "ValueError"
    /\ retrieved # {}
    /\ lockers[last.unit].available_capability = 0
    /\ lockers[last.unit].capability = Cardinality(DOMAIN lockers[last.unit].stored_bags)

(* C20. Aggregator construction: LockerRobotManager(lockers, robots)        *)
(* raises ValueError("Must provide at least one locker or one robot")       *)
(* exactly when both lists are empty, and returns a manager when one list   *)
(* alone is empty and the other holds objects of the right kind; each       *)
(* robot class raises ValueError("Must provide at least one locker")        *)
(* exactly for the empty list, LockerRobotDirector raises                   *)
(* ValueError("Must provide at least one manager") exactly for the empty    *)
(* list; and every aggregator that was constructed has at least one child.  *)

\* the constructor of a robot class
Robot__init__(kind, ls) ==
    CASE kind = "PrimaryLockerRobot" -> PrimaryLockerRobot__init__(ls)
      [] kind = "SmartLockerRobot" -> SmartLockerRobot__init__(ls)
      [] kind = "SuperLockerRobot" -> SuperLockerRobot__init__(ls)

\* the children of an aggregator
Children(u) ==
    IF units[u].kind = "LockerRobotDirector" THEN units[u].managers
    ELSE units[u].lockers \o units[u].robots

AggregatorConstruction ==
    /\ \A ls \in LockerArgs, rs \in RobotArgs :
           LET r == LockerRobotManager__init__(ls, rs)
           IN  /\ r.raised = "ValueError" <=> (ls = <<>> /\ rs = <<>>)
               /\ r.raised = "ValueError" =>
                      r.msg = "Must provide at least one locker or one robot"
               /\ ( /\ (ls = <<>>) # (rs = <<>>)
                    /\ \A i \in 1..Len(ls) : isinstance_Locker(ls[i])
                    /\ \A i \in 1..Len(rs) : has_store_and_retrieve(rs[i]) ) =>
                      (r.raised = "" /\ r.ret = LockerRobotManager(ls, rs))
    /\ \A kind \in RobotKinds, ls \in LockerArgs :
           LET r == Robot__init__(kind, ls)
           IN  /\ r.raised = "ValueError" <=> ls = <<>>
               /\ r.raised = "ValueError" => r.msg = "Must provide at least one locker"
               /\ r.raised = "" => r.ret = Robot(kind, ls)
    /\ \A ms \in ManagerArgs :
           LET r == LockerRobotDirector__init__(ms)
           IN  /\ r.raised = "ValueError" <=> ms = <<>>
               /\ r.raised = "ValueError" => r.msg = "Must provide at least one manager"
               /\ r.raised = "" => r.ret = LockerRobotDirector(ms)
    /\ \A u \in DOMAIN units : Children(u) # <<>>
    /\ last.op = "__init__" => (last.unit \in DOMAIN units <=> last.raised = "")

\* a manager was built from robots alone, and LockerRobotManager([], [])
\* has just been refused
AggregatorConstructionWitness ==
    /\ last.op = "__init__"
    /\ last.content = Str("LockerRobotManager")
    /\ last.raised = "ValueError"
    /\ \E m \in Objects("LockerRobotManager") :
           units[m].lockers = <<>> /\ units[m].robots # <<>>

----------------------------------------------------------------------------
(* Vocabulary of the frame properties *)

\* the classes of the aggregators that store and retrieve
Aggregators == RobotKinds \cup {"LockerRobotManager"}

\* the lockers a call on u can reach: u itself, the lockers of a robot, the
\* own lockers and the robots' lockers of a manager
SubtreeLockers(u) ==
    IF u \in DOMAIN lockers THEN {u}
    ELSE IF units[u].kind = "LockerRobotManager" THEN LockersUnder(u)
    ELSE Range(units[u].lockers)

\* the step changes no locker but l
OnlyChanges(l) == \A k \in (DOMAIN lockers) \ {l} : lockers'[k] = lockers[k]

(* C21. Store frame: a store_bag call on a robot or a manager that returns  *)
(* a ticket changes exactly one locker, one of the aggregator's subtree:    *)
(* its available_capability goes down by exactly 1 and its stored_bags      *)
(* gains exactly the entry (ticket, payload); every other locker, the full  *)
(* ones that were passed over included, is unchanged, and the ticket is a   *)
(* key of that one locker only.                                             *)

StoreFrame ==
    [][ \A class \in Aggregators :
            (StepStores(class) /\ last'.raised = "") =>
                \E l \in SubtreeLockers(last'.unit) :
                    /\ lockers'[l].available_capability = lockers[l].available_capability - 1
                    /\ last'.ticket \notin DOMAIN lockers[l].stored_bags
                    /\ lockers'[l].stored_bags =
                           DictSet(lockers[l].stored_bags, last'.ticket, last'.content)
                    /\ lockers'[l].capability = lockers[l].capability
                    /\ OnlyChanges(l)
                    /\ \A k \in DOMAIN lockers :
                           last'.ticket \in DOMAIN lockers'[k].stored_bags <=> k = l
      ]_vars

\* a manager has put a bag in its own locker after passing over a robot
\* whose two lockers are full
StoreFrameWitness ==
    /\ LastCall("store_bag", "LockerRobotManager")
    /\ last.raised = ""
    /\ \E l \in Range(units[last.unit].lockers) :
           last.ticket \in DOMAIN lockers[l].stored_bags
    /\ \E r \in Range(units[last.unit].robots) :
           /\ Len(units[r].lockers) = 2
           /\ ~HasFree(units[r].lockers, lockers)

(* C22. Retrieve frame: a retrieve_bag call on a robot or a manager that    *)
(* returns a bag changes exactly the locker that held the ticket, a locker  *)
(* of the aggregator's subtree: the entry of the ticket is removed, its     *)
(* available_capability goes up by exactly 1, the bag returned is the one   *)
(* that was stored under the ticket; every other locker, those asked        *)
(* before it included, is unchanged.                                        *)

RetrieveFrame ==
    [][ \A class \in Aggregators :
            (StepRetrieves /\ ClassOf(last'.unit) = class /\ last'.raised = "") =>
                \E l \in SubtreeLockers(last'.unit) :
                    /\ Holders(last'.ticket) = {l}
                    /\ last'.content = lockers[l].stored_bags[last'.ticket]
                    /\ lockers'[l] =
                           [lockers[l] EXCEPT !.stored_bags = DictDel(@, last'.ticket),
                                              !.available_capability = @ + 1]
                    /\ OnlyChanges(l)
      ]_vars

\* a manager has handed out a bag from its own locker, which it asks last:
\* the lockers of its robot, asked before, are still full
RetrieveFrameWitness ==
    /\ LastCall("retrieve_bag", "LockerRobotManager")
    /\ last.raised = ""
    /\ units[last.unit].lockers # <<>>
    /\ \A l \in Range(units[last.unit].lockers) : lockers[l].stored_bags = EmptyDict
    /\ \E r \in Range(units[last.unit].robots) :
           /\ Len(units[r].lockers) = 2
           /\ ~HasFree(units[r].lockers, lockers)

(* C23. Failed retrieve changes nothing: in every reachable state,          *)
(* retrieve_bag on a locker, a robot or a manager with a ticket that no     *)
(* locker of the addressed subtree holds, be it a string never issued, a    *)
(* ticket already used, a ticket held elsewhere or a value that is no       *)
(* string, raises ValueError("Invalid ticket") and leaves stored_bags and   *)
(* available_capability of every locker as they were.                       *)

\* the tickets a caller can present, and a uuid that was never issued
AnyTickets == TicketArgs \cup {uuid4(uuidCount + 1)}

FailedRetrieve ==
    \A u \in (DOMAIN lockers) \cup UNION {Objects(k) : k \in Aggregators} :
        \A t \in AnyTickets :
            (\A l \in SubtreeLockers(u) : t \notin DOMAIN lockers[l].stored_bags) =>
                LET r == retrieve_bag(u, t, lockers)
                IN  /\ r.raised = "ValueError"
                    /\ r.msg = "Invalid ticket"
                    /\ r.lockers = lockers

\* a manager whose robot and own locker hold bags has just refused None
FailedRetrieveWitness ==
    /\ LastCall("retrieve_bag", "LockerRobotManager")
    /\ last.ticket = NoneTicket
    /\ last.raised = "ValueError"
    /\ last.msg = "Invalid ticket"
    /\ \E l \in Range(units[last.unit].lockers) : lockers[l].stored_bags # EmptyDict
    /\ \E r \in Range(units[last.unit].robots) :
           \E l \in Range(units[r].lockers) : lockers[l].stored_bags # EmptyDict

(* C24. Retrieval scope isolation: in every reachable state, for every      *)
(* robot or manager and every ticket held by a locker that is not in the    *)
(* aggregator's subtree, retrieve_bag on the aggregator raises              *)
(* ValueError("Invalid ticket") and leaves the bag where it is, and         *)
(* retrieve_bag on the locker that holds the ticket then returns the bag.   *)

ScopeIsolation ==
    \A u \in UNION {Objects(k) : k \in Aggregators} :
        \A l \in (DOMAIN lockers) \ SubtreeLockers(u) :
            \A t \in DOMAIN lockers[l].stored_bags :
                LET r == retrieve_bag(u, t, lockers)
                    o == Locker_retrieve_bag(l, t, r.lockers)
                IN  /\ r.raised = "ValueError"
                    /\ r.msg = "Invalid ticket"
                    /\ t \in DOMAIN r.lockers[l].stored_bags
                    /\ r.lockers = lockers
                    /\ o.raised = ""
                    /\ o.ret = lockers[l].stored_bags[t]

\* a manager has just refused a ticket that a locker outside its subtree
\* holds, while its own lockers and its robots' lockers hold bags too
ScopeIsolationWitness ==
    /\ LastCall("retrieve_bag", "LockerRobotManager")
    /\ last.raised = "ValueError"
    /\ \E l \in (DOMAIN lockers) \ LockersUnder(last.unit) :
           last.ticket \in DOMAIN lockers[l].stored_bags
    /\ \E l \in LockersUnder(last.unit) : lockers[l].stored_bags # EmptyDict

(* C25. No false Full at the manager: in every reachable state, for a       *)
(* manager over PrimaryLockerRobot, SmartLockerRobot and SuperLockerRobot   *)
(* robots, store_bag of a string returns a ticket whenever some locker      *)
(* among its robots' lockers and its own lockers has                        *)
(* available_capability > 0, and raises, ValueError("All lockers are        *)
(* full"), only when all of them are at 0.                                  *)

NoFalseFull ==
    \A m \in Objects("LockerRobotManager") :
        \A c \in StringContents :
            LET r == LockerRobotManager_store_bag(m, c, lockers, uuid4(uuidCount + 1))
            IN  /\ \A x \in Range(units[m].robots) : ClassOf(x) \in RobotKinds
                /\ ~AllFull(m) => r.raised = ""
                /\ r.raised # "" =>
                       /\ AllFull(m)
                       /\ r.raised = "ValueError"
                       /\ r.msg = "All lockers are full"

\* a manager over three lockers has just filled the only slot that was
\* left, its own locker: the robot before it was full
NoFalseFullWitness ==
    /\ LastCall("store_bag", "LockerRobotManager")
    /\ last.raised = ""
    /\ Cardinality(LockersUnder(last.unit)) = 3
    /\ AllFull(last.unit)
    /\ \E l \in Range(units[last.unit].lockers) :
           last.ticket \in DOMAIN lockers[l].stored_bags

(* C26. Outstanding tickets survive other traffic: whatever call a step     *)
(* makes (store_bag, retrieve_bag or generateReport, returning or raising,  *)
(* on any object), every ticket held before the step, other than the one    *)
(* the step hands back, is held by the same locker with the same bag        *)
(* after it; and after every step each held ticket, the one just issued     *)
(* included (with the payload of the call), is retrievable with its bag     *)
(* through the locker that holds it and through every robot and manager     *)
(* above that locker.                                                       *)

\* the robots and managers that have locker l in their subtree
Above(l) == {u \in UNION {Objects(k) : k \in Aggregators} : l \in SubtreeLockers(u)}

\* the step hands back the bag of ticket t
StepHandsBack(t) == StepRetrieves /\ last'.raised = "" /\ last'.ticket = t

\* every held ticket is retrievable with its bag through the locker that
\* holds it and through every robot and manager above that locker
HeldRetrievable ==
    \A l \in DOMAIN lockers :
        \A t \in DOMAIN lockers[l].stored_bags :
            \A u \in {l} \cup Above(l) :
                LET r == retrieve_bag(u, t, lockers)
                IN  r.raised = "" /\ r.ret = lockers[l].stored_bags[t]

OutstandingSurvive ==
    /\ []HeldRetrievable
    /\ [][ \A l \in DOMAIN lockers :
               /\ \A t \in DOMAIN lockers[l].stored_bags :
                      ~StepHandsBack(t) =>
                          /\ t \in DOMAIN lockers'[l].stored_bags
                          /\ lockers'[l].stored_bags[t] = lockers[l].stored_bags[t]
               /\ \A t \in DOMAIN lockers'[l].stored_bags :
                      t \notin DOMAIN lockers[l].stored_bags =>
                          /\ last'.op = "store_bag"
                          /\ last'.ticket = t
                          /\ lockers'[l].stored_bags[t] = last'.content
         ]_vars

\* the first ticket issued is still held, in a locker of a robot of a
\* manager, after a later ticket was issued and handed back and a call has
\* just raised
OutstandingSurviveWitness ==
    /\ last.raised # ""
    /\ uuid4(2) \in retrieved
    /\ uuid4(1) \notin retrieved
    /\ \E l \in DOMAIN lockers :
           /\ uuid4(1) \in DOMAIN lockers[l].stored_bags
           /\ Cardinality(Above(l)) = 2

(* C27. Conservation of items: in every reachable state of a hierarchy      *)
(* that started empty, the number of occupied slots, the sum over all       *)
(* lockers of capability - available_capability, equals the number of       *)
(* store_bag calls that returned minus the number of retrieve_bag calls     *)
(* that returned, and equals the number of outstanding tickets.             *)

\* the sum of capability - available_capability over a set of lockers
RECURSIVE OccupiedSlots(_)
OccupiedSlots(S) ==
    IF S = {} THEN 0
    ELSE LET l == CHOOSE x \in S : TRUE
         IN  (lockers[l].capability - lockers[l].available_capability)
                 + OccupiedSlots(S \ {l})

\* every store_bag that returned made one uuid4() call, and the tickets
\* handed back are pairwise different
SuccessfulStores == uuidCount

SuccessfulRetrieves == Cardinality(retrieved)

Conservation ==
    /\ OccupiedSlots(DOMAIN lockers) = SuccessfulStores - SuccessfulRetrieves
    /\ OccupiedSlots(DOMAIN lockers) = Cardinality(Issued \ retrieved)
    /\ Issued \ retrieved = UNION {DOMAIN lockers[l].stored_bags : l \in DOMAIN lockers}

\* three stores and one retrieve have returned, the last call being a store
\* through a manager: two slots are occupied
ConservationWitness ==
    /\ LastCall("store_bag", "LockerRobotManager")
    /\ last.raised = ""
    /\ uuidCount = 3
    /\ Cardinality(retrieved) = 1
    /\ OccupiedSlots(DOMAIN lockers) = 2

(* C28. Slot reuse: in every reachable state where a locker, or every       *)
(* locker of the subtree of a robot or of a manager, is full, store_bag of  *)
(* a string at that level raises; after one retrieve_bag that returns, of   *)
(* any ticket held in the subtree and made on the locker that holds it or   *)
(* on any robot or manager above that locker, the next store_bag at that    *)
(* level returns a ticket and puts the bag in the locker just freed.        *)

SlotReuse ==
    \A u \in (DOMAIN lockers) \cup UNION {Objects(k) : k \in Aggregators} :
        (\A l \in SubtreeLockers(u) : lockers[l].available_capability = 0) =>
            \A c \in StringContents :
                /\ store_bag(u, c, lockers, uuid4(uuidCount + 1)).raised = "ValueError"
                /\ \A l \in SubtreeLockers(u) :
                       \A t \in DOMAIN lockers[l].stored_bags :
                           \A v \in {l} \cup Above(l) :
                               LET r == retrieve_bag(v, t, lockers)
                                   s == store_bag(u, c, r.lockers, uuid4(uuidCount + 1))
                               IN  /\ r.raised = ""
                                   /\ s.raised = ""
                                   /\ s.ret \in DOMAIN s.lockers[l].stored_bags
                                   /\ s.lockers[l].stored_bags[s.ret] = c
                                   /\ s.lockers[l].available_capability = 0

\* a manager whose two lockers were full after the first two stores has
\* handed back the second bag and then stored a third: it is in the locker
\* that was freed, and the manager is full again
SlotReuseWitness ==
    /\ LastCall("store_bag", "LockerRobotManager")
    /\ last.raised = ""
    /\ LockersUnder(last.unit) = DOMAIN lockers
    /\ Cardinality(DOMAIN lockers) = 2
    /\ uuidCount = 3
    /\ last.ticket = uuid4(3)
    /\ retrieved = {uuid4(2)}
    /\ AllFull(last.unit)

(* C29. Report reflects live state: in every reachable state, for every     *)
(* director and each of its managers, when generateReport, one store_bag    *)
(* (resp. retrieve_bag) on the manager that returns, and generateReport     *)
(* again are called in this order, the second report has the lines of the   *)
(* first except for the M line of that manager, the L line of the locker    *)
(* that took (resp. gave) the bag, and the R line of its robot if it is a   *)
(* robot's locker; on each of these available is smaller (resp. greater)    *)
(* by exactly 1 and max is the same.                                        *)

\* the positions of x in the list
IndexesOf(seq, x) == {i \in 1..Len(seq) : seq[i] = x}

\* the numbers of the report lines that show locker l below the k-th
\* manager of director d: the M line, and the L line of l, with the R line
\* before it when l is a robot's
AffectedLines(d, k, l) ==
    LET m    == units[d].managers[k]
        base == ManagerOffset(d, k)
        rs   == units[m].robots
    IN  {base + 1}
            \cup {base + 1 + j : j \in IndexesOf(units[m].lockers, l)}
            \cup UNION { IF IndexesOf(units[rs[j]].lockers, l) = {} THEN {}
                         ELSE {base + RobotOffset(m, j) + 1}
                                  \cup {base + RobotOffset(m, j) + 1 + i :
                                            i \in IndexesOf(units[rs[j]].lockers, l)} :
                         j \in 1..Len(rs) }

\* report b is report a with available changed by delta on the given lines
ReportDiffers(a, b, lines, delta) ==
    /\ Len(b) = Len(a)
    /\ \A n \in 1..Len(a) :
           b[n] = IF n \in lines THEN [a[n] EXCEPT !.available = @ + delta] ELSE a[n]

ReportLive ==
    \A d \in Objects("LockerRobotDirector") :
        \A k \in 1..Len(units[d].managers) :
            LET m     == units[d].managers[k]
                first == LockerRobotDirector_generateReport(d, lockers)
            IN  /\ \A c \in StringContents :
                       LET s == LockerRobotManager_store_bag(m, c, first.lockers,
                                                             uuid4(uuidCount + 1))
                           second == LockerRobotDirector_generateReport(d, s.lockers)
                       IN  s.raised = "" =>
                               \E l \in LockersUnder(m) :
                                   /\ s.ret \in DOMAIN s.lockers[l].stored_bags
                                   /\ ReportDiffers(first.ret, second.ret,
                                                    AffectedLines(d, k, l), -1)
                /\ \A l \in LockersUnder(m) :
                       \A t \in DOMAIN lockers[l].stored_bags :
                           LET r == LockerRobotManager_retrieve_bag(m, t, first.lockers)
                               second == LockerRobotDirector_generateReport(d, r.lockers)
                           IN  /\ r.raised = ""
                               /\ ReportDiffers(first.ret, second.ret,
                                                AffectedLines(d, k, l), 1)

\* a report made after the second manager of a director stored a bag and
\* the robot of the first manager holds one: the M lines of both managers
\* and an R line show available below max
ReportLiveWitness ==
    /\ Reported
    /\ uuidCount = 2
    /\ retrieved = {}
    /\ Len(units[last.unit].managers) = 2
    /\ \A k \in 1..2 :
           LET line == last.report[ManagerOffset(last.unit, k) + 1]
           IN  line.tag = "M" /\ line.available < line.max
    /\ \E n \in 1..Len(last.report) :
           last.report[n].tag = "R" /\ last.report[n].available < last.report[n].max

(* C30. The Smart robot over two empty lockers of capacity 2 and 3: as the  *)
(* comments of its test state it, the first three stores go to the second   *)
(* locker, to the second locker again, and to the first locker.  While no   *)
(* bag has been retrieved, the n-th ticket is still in the locker the n-th  *)
(* store chose.                                                             *)

\* the locker that holds ticket t, "None" when no locker does
HolderOf(t) ==
    IF \E l \in DOMAIN lockers : t \in DOMAIN lockers[l].stored_bags
    THEN CHOOSE l \in DOMAIN lockers : t \in DOMAIN lockers[l].stored_bags
    ELSE "None"

\* the n-th store, if it has been made and nothing was retrieved, went to l
NthStoreWentTo(n, l) ==
    (retrieved = {} /\ uuidCount >= n) => HolderOf(uuid4(n)) = l

CheckThenMutate ==
    \A l \in DOMAIN lockers :
        LET bags == Cardinality(DOMAIN lockers[l].stored_bags)
        IN  /\ bags + lockers[l].available_capability = lockers[l].capability
            /\ threads.atomic =>
                   /\ lockers[l].available_capability >= 0
                   /\ bags <= lockers[l].capability
            /\ lockers[l].available_capability < 0 => threads.raced
            /\ lockers[l].available_capability >= 1 - Cardinality(RaceThreads)

\* the steps interleaved: both threads saw one free slot on a locker of
\* capability 1 and both stored; the locker holds two bags, available is -1
CheckThenMutateWitness ==
    /\ ~threads.atomic
    /\ \A t \in RaceThreads :
           threads.call[t].pc = "idle" /\ threads.call[t].observed = 1
    /\ \E l \in DOMAIN lockers :
           /\ lockers[l].capability = 1
           /\ lockers[l].available_capability = -1
           /\ Cardinality(DOMAIN lockers[l].stored_bags) = 2

(* C32. Unknown-depth routing: a manager is accepted as an item of another  *)
(* manager's robots, and in every reachable state of managers nested to     *)
(* any depth, for every manager of the nest: store_bag of a string raises   *)
(* ValueError and changes nothing when every locker below it, at any        *)
(* depth, is full; otherwise it returns a ticket held by a locker below     *)
(* it, and retrieve_bag of that ticket through the same manager returns     *)
(* the string and leaves every locker as it was before the store.           *)
(* retrieve_bag of any ticket held below the manager returns its bag and    *)
(* frees the slot of the locker that held it, whichever nested managers     *)
(* are full or do not know the ticket; a ticket held nowhere below raises   *)
(* ValueError.                                                              *)

\* the lockers below u at any depth
RECURSIVE LeafLockers(_)
LeafLockers(u) ==
    IF u \in DOMAIN lockers
    THEN {u}
    ELSE Range(units[u].lockers)
             \cup UNION {LeafLockers(r) : r \in Range(units[u].robots)}

\* the number of managers from u down its first items of robots
RECURSIVE NestingDepth(_)
NestingDepth(u) ==
    IF u \in DOMAIN lockers \/ units[u].kind # "LockerRobotManager" THEN 0
    ELSE IF units[u].robots = <<>> THEN 1
    ELSE 1 + NestingDepth(units[u].robots[1])

NestedRouting ==
    \A m \in Objects("LockerRobotManager") :
        /\ LockerRobotManager__init__(units[m].lockers, units[m].robots).raised = ""
        /\ \A c \in StringContents :
               LET s == LockerRobotManager_store_bag(m, c, lockers, uuid4(uuidCount + 1))
               IN  IF \A l \in LeafLockers(m) : lockers[l].available_capability = 0
                   THEN s.raised = "ValueError" /\ s.lockers = lockers
                   ELSE /\ s.raised = ""
                        /\ \E l \in LeafLockers(m) :
                               s.ret \in DOMAIN s.lockers[l].stored_bags
                        /\ LET r == LockerRobotManager_retrieve_bag(m, s.ret, s.lockers)
                           IN  r.raised = "" /\ r.ret = c /\ r.lockers = lockers
        /\ \A l \in LeafLockers(m) :
               \A t \in DOMAIN lockers[l].stored_bags :
                   LET r == LockerRobotManager_retrieve_bag(m, t, lockers)
                   IN  /\ r.raised = ""
                       /\ r.ret = lockers[l].stored_bags[t]
                       /\ r.lockers =
                              [lockers EXCEPT ![l].stored_bags = DictDel(@, t),
                                              ![l].available_capability = @ + 1]
        /\ \A t \in TicketArgs :
               (\A l \in LeafLockers(m) : t \notin DOMAIN lockers[l].stored_bags) =>
                   LET r == LockerRobotManager_retrieve_bag(m, t, lockers)
                   IN  r.raised = "ValueError" /\ r.lockers = lockers

\* the outermost of three nested managers has just returned the bag of the
\* second ticket, which was held one level above the innermost manager,
\* whose locker is full with the first ticket: the innermost manager's
\* "Invalid ticket" was passed over
NestedRoutingWitness ==
    /\ last.op = "retrieve_bag"
    /\ last.unit = "M1"
    /\ last.raised = ""
    /\ last.ticket = uuid4(2)
    /\ isinstance_str(last.content)
    /\ NestingDepth("M1") = 3
    /\ uuid4(1) \in DOMAIN lockers["L3"].stored_bags
    /\ lockers["L2"].available_capability = lockers["L2"].capability
    /\ retrieved = {uuid4(2)}

(* C33. Report totality: in every reachable state, for every director       *)
(* whose managers the constructors accept, a bare Locker or a manager       *)
(* among a manager's robots included, generateReport returns without an     *)
(* exception, and the M line of each manager carries the sums of            *)
(* available_capability and of capability over every locker below that      *)
(* manager at any depth.                                                    *)

\* the sum of a field over a set of lockers
RECURSIVE LockerSum(_, _)
LockerSum(S, field) ==
    IF S = {}
    THEN 0
    ELSE LET l == CHOOSE x \in S : TRUE
         IN  lockers[l][field] + LockerSum(S \ {l}, field)

\* the constructors accept the director and each of its managers as built
Accepted(d) ==
    /\ LockerRobotDirector__init__(units[d].managers).raised = ""
    /\ \A m \in Range(units[d].managers) :
           LockerRobotManager__init__(units[m].lockers, units[m].robots).raised = ""

ReportTotal ==
    \A d \in Objects("LockerRobotDirector") :
        Accepted(d) =>
            LET r == LockerRobotDirector_generateReport(d, lockers)
            IN  /\ r.raised = ""
                /\ \A k \in 1..Len(units[d].managers) :
                       LET m    == units[d].managers[k]
                           line == r.ret[ManagerOffset(d, k) + 1]
                       IN  /\ line.tag = "M"
                           /\ line.available =
                                  LockerSum(LeafLockers(m), "available_capability")
                           /\ line.max = LockerSum(LeafLockers(m), "capability")

====
